---- MODULE Spec2Model ----
(***************************************************************************)
(* A model of the matrix-wechat bridge: the request/response multiplexer   *)
(* of the agent connection (WechatService), the portal's message loop with *)
(* its two queues (Portal), and the creation of a portal's Matrix room.    *)
(*                                                                         *)
(* The specifications share the module, one per component:                 *)
(*   SpecTransport  WechatService.request / ServeHTTP and their helpers    *)
(*   SpecPortal     handleWechatMessageLoopItem and the handlers it calls  *)
(*   SpecMedia      the same, with media events and their uploads          *)
(*   SpecRoom       concurrent callers of Portal.CreateMatrixRoom          *)
(*   SpecLoop       the connection reader's event dispatch, processEvent,  *)
(*                  ReceiveMatrixEvent and handleMessageLoop's two queues  *)
(*   SpecWebsocket  the single-connection service of wechatservice.go      *)
(*   SpecRegistry   the portal lookups, CreatePrivatePortal, StartPM and   *)
(*                  Portal.Delete                                          *)
(*   SpecLookups    the portal lookups alone                               *)
(*   SpecStore      the message table of a portal, under both handlers     *)
(*   SpecUsers      login, logout and the index of remote UIDs             *)
(*   SpecPuppets    the puppet lookups and SwitchCustomMXID                *)
(*   SpecCustomPuppet  the double-puppet session of a puppet               *)
(*   SpecConsumer   handleMessageLoop with handlers that panic             *)
(*   SpecInbound    handleWechatEvent on the message table                 *)
(*   SpecOutbound   HandleMatrixMessage, canBridgeFrom and replyFailure    *)
(*   SpecMetadata   the name, topic and avatar of a portal and their flags *)
(*   SpecSelect     the select of handleMessageLoop, with senders that     *)
(*                  never stop, under fairness of each case                *)
(*   SpecStop       WechatBridge.Stop and WechatService.Stop and the locks *)
(*                  they hold, beside a request and a lookup               *)
(*   SpecClients    the client registry of wechatservice.go and its lock   *)
(*   SpecUserObjects  the User objects and the two maps that lead to them  *)
(*   SpecRing       markHandled and the ring of the handled message IDs    *)
(*   SpecLockOrder  the locks of CreateMatrixRoom, Puppet.Sync and         *)
(*                  updatePortalMeta                                       *)
(* Each specification leaves the variables of the others unchanged.        *)
(***************************************************************************)
EXTENDS Integers, Sequences, FiniteSets, TLC

(***************************************************************************)
(* Bounds of the model.                                                    *)
(***************************************************************************)
NumCallers == 2
NumConns == 1
NumMsgIDs == 2
MaxItems == 3
NumTriggers == 3
MaxRemoteEvents == 2
MaxHubEvents == 3
PortalMessageBuffer == 2
NumWsCallers == 1
NumSockets == 2
NumPortalKeys == 1
MaxPortals == 3
NumRooms == 3
NumTimestamps == 2
NumUsers == 2
NumAccounts == 2
NumPuppetUIDs == 2
NumMXIDs == 1
MaxPuppets == 3
MaxPanics == 1
NumValues == 2
NumTasks == 2
MaxUserObjs == 3

\* Each caller is one call of request(); the calls are alike, so they start in
\* the order of their numbers, and so do the connections.
Callers == 1..NumCallers
IDs == 1..NumCallers
ConnKeys == 1..NumConns

VARIABLES
    \* ---- WechatService (transport) ----
    requestID,      \* ws.requestID, the atomic counter
    requests,       \* ws.requests: ID -> waiter channel (0: no entry)
    chans,          \* the response channels, one per request, named by the ID of
                    \* the request that made it: [buf: frames, closed: BOOLEAN]
    conns,          \* the keys of ws.conns
    connState,      \* each connection: "none", "open", "closed"
    pc,             \* where each caller of request() is
    rid,            \* msg.ID of the caller's request
    cconn,          \* the conn getConn returned to the caller (0: nil)
    expired,        \* the caller's ctx deadline has passed
    outcome,        \* what request() returns to the caller
    got,            \* the ID of the response frame the caller received (0: none)
    rpc,            \* where each connection's reader (ServeHTTP) is
    rframe,         \* msg.ID of the frame the reader is handling
    rchan,          \* respChan the reader took from ws.requests
    panics,         \* history: IDs of the frames whose send made a reader panic
    allocLog,       \* history: the IDs in allocation order
    returns,        \* history: per ID, the outcomes request() returned
    \* ---- Portal: the handlers of remote-origin items ----
    AllowRedaction,         \* Config.Bridge.AllowRedaction
    MXID,                   \* p.MXID, the portal's room (0: "")
    roomsCreated,           \* history: the number of rooms intent.CreateRoom made
    store,                  \* the message records of the portal, by message ID
    hub,                    \* history: the messages sent into the portal's room
    nextEventID,            \* the event ID the hub gives to the next message
    redactRequests,         \* history: the hub events RedactEvent was called for
    redacted,               \* history: the hub events redacted
    recentlyHandled,        \* p.recentlyHandled
    recentlyHandledIndex,   \* p.recentlyHandledIndex
    topic,                  \* the room topic (0: not set by a notice)
    deliveries,             \* history: per event, how often the loop was given it
    revokedAfterBridge,     \* history: the IDs revoked while a normal record of
                            \* them was in the store
    revokeAccepted,         \* history: the IDs of those whose notice the hub took
    nHandled,               \* history: the number of items handled
    \* ---- Portal.CreateMatrixRoom ----
    roomCreateLock,         \* p.roomCreateLock: the trigger holding it (0: free)
    tpc,                    \* where each trigger is
    observed,               \* the room ID each trigger ended up with (0: none)
    \* ---- the reader's dispatch and the portal's message loop ----
    nread,                  \* the number of events the reader has read
    spawned,                \* the goroutines of go client.processFunc(e), by the
                            \* number of their event in reading order
    messages,               \* p.messages
    processedLog,           \* history: the remote-origin events in handling order
    nsubmitted,             \* the number of hub events given to ReceiveMatrixEvent
    matrixMessages,         \* p.matrixMessages
    remoteLog,              \* history: the hub events in the order of SendEvent
    \* ---- WechatService with one current connection (wechatservice.go) ----
    wsConn,                 \* ws.conn (0: nil)
    websocketRequests,      \* ws.websocketRequests: ReqID -> waiter (0: no entry)
    wsRequestID,            \* ws.wsRequestID
    respChans,              \* the response channels, named by the ReqID
    sockState,              \* each accepted websocket: "none", "open", "closed"
    wpc,                    \* where each caller of RequestWebsocket is
    ReqID,                  \* cmd.ReqID of the caller's request
    sendConn,               \* conn := ws.conn in the caller's SendWebsocket
    reqResult,              \* what RequestWebsocket returns to the caller
    reqResp,                \* the frame the caller received: <<ReqID, websocket>>
    \* ---- the bridge's registry of portals ----
    portalsByUID,           \* br.portalsByUID: portal key -> Portal (0: no entry)
    portalsByMXID,          \* br.portalsByMXID: room ID -> Portal (0: no entry)
    portals,                \* the Portal objects made by newBlankPortal, each
                            \* with its handleMessageLoop: their Key, MXID, and
                            \* whether Update is still to be called
    dbPortals,              \* the portal table: key -> room ID (0: ""), or NoRow
    roomsMade,              \* the number of room IDs the hub has given out
    \* ---- the message table of a portal ----
    rows,                   \* the records inserted: their message ID, hub event
                            \* and type
    outbound,               \* the hub events given to sender.Client.SendEvent,
                            \* those answered with replyFailure, and how
                            \* the last item of the portal ended
    \* ---- the users and the index of their remote UIDs ----
    agentAccount,           \* per user: the remote account its agent is logged
                            \* in with, 0 when it is not logged in
    userUID,                \* per user: u.UID, 0 when empty
    usersByUsername,        \* br.usersByUsername: remote UID -> user, 0 for no entry
    \* ---- the puppets ----
    puppetObjs,             \* the Puppet objects made so far, in order
    puppets,                \* br.puppets: remote UID -> object, 0 for no entry
    puppetsByCustomMXID,    \* br.puppetsByCustomMXID: hub user -> object, 0 for no entry
    dbPuppetRows,           \* the puppet table: remote UID -> custom_mxid of its
                            \* row, -1 when there is no row
    \* ---- the consumer goroutine of a portal ----
    consumer,               \* handleMessageLoop: whether it is running, how
                            \* many handlers have panicked, and whether it
                            \* has handled an item after a panic
    \* ---- the name, topic and avatar of a portal ----
    meta,                   \* the portal's fields and "set" flags, the state
                            \* of its hub room, the fields whose last push
                            \* failed, and the hub call of the last step
    \* ---- the locks and the tasks that take them ----
    held,                   \* each lock: its writer (0: none) and its readers
    clients,                \* the keys of ws.clients
    at,                     \* each task: the operation it runs, its step, and
                            \* the number of items its loop has left
    \* ---- the User objects ----
    userRegistry            \* the User objects made by NewUser, each with its
                            \* resync loop; br.usersByMXID, br.usersByUsername
                            \* and the rows of the user table

tvars == <<requestID, requests, chans, conns, connState, pc, rid, cconn, expired, outcome, got, rpc, rframe, rchan, panics, allocLog,
           returns>>

hvars == <<AllowRedaction, store, hub, nextEventID, redactRequests, redacted,
           recentlyHandled, recentlyHandledIndex, topic, deliveries,
           revokedAfterBridge, revokeAccepted, nHandled>>

pvars == <<MXID, roomsCreated, hvars>>

rvars == <<roomCreateLock, tpc, observed>>

lvars == <<nread, spawned, messages, processedLog, nsubmitted, matrixMessages,
           remoteLog>>

wvars == <<wsConn, websocketRequests, wsRequestID, respChans, sockState, wpc,
           ReqID, sendConn, reqResult, reqResp>>

gvars == <<portalsByUID, portalsByMXID, portals, dbPortals, roomsMade>>

svars == <<rows, outbound>>

uvars == <<agentAccount, userUID, usersByUsername>>

cvars == <<puppetObjs, puppets, puppetsByCustomMXID, dbPuppetRows>>

kvars == <<consumer>>

mvars == <<meta>>

dvars == <<held, clients, at>>

ovars == <<userRegistry>>

vars == <<tvars, pvars, rvars, lvars, wvars, gvars, svars, uvars, cvars, kvars, mvars, dvars, ovars>>

\* what the actions of one component leave unchanged
otherThanTransport == <<pvars, rvars, lvars, wvars, gvars, svars, uvars, cvars, kvars, mvars, dvars, ovars>>

otherThanPortal == <<tvars, rvars, lvars, wvars, gvars, svars, uvars, cvars, kvars, mvars, dvars, ovars>>

otherThanRoom == <<tvars, hvars, lvars, wvars, gvars, svars, uvars, cvars, kvars, mvars, dvars, ovars>>

otherThanLoop == <<tvars, pvars, rvars, wvars, gvars, svars, uvars, cvars, kvars, mvars, dvars, ovars>>

otherThanWebsocket == <<tvars, pvars, rvars, lvars, gvars, svars, uvars, cvars, kvars, mvars, dvars, ovars>>

otherThanRegistry == <<tvars, pvars, rvars, lvars, wvars, svars, uvars, cvars, kvars, mvars, dvars, ovars>>

otherThanStore == <<tvars, rvars, lvars, wvars, gvars, uvars, cvars, kvars, mvars, dvars, ovars>>

otherThanUsers == <<tvars, pvars, rvars, lvars, wvars, gvars, svars, cvars, kvars, mvars, dvars, ovars>>

otherThanPuppets == <<tvars, pvars, rvars, lvars, wvars, gvars, svars, uvars, kvars, mvars, dvars, ovars>>

otherThanConsumer == <<tvars, pvars, rvars, wvars, gvars, svars, uvars, cvars, mvars, dvars, ovars>>

otherThanMetadata == <<tvars, pvars, rvars, lvars, wvars, gvars, svars, uvars, cvars, kvars, dvars, ovars>>

otherThanLocks == <<tvars, pvars, rvars, lvars, wvars, gvars, svars, uvars, cvars, kvars, mvars, ovars>>

otherThanUserObjects == <<tvars, pvars, rvars, lvars, wvars, gvars, svars, uvars, cvars, kvars, mvars, dvars>>

(***************************************************************************)
(* WechatService: request, addResponseWaiter, removeResponseWaiter,        *)
(* getConn, Conn.sendMessage and the reader loop of ServeHTTP.             *)
(***************************************************************************)

\* make(chan *Response, 1)
ChanCap == 1

NewChan == [buf |-> <<>>, closed |-> FALSE]

\* atomic.AddInt64(&ws.requestID, 1), with a lost update
NextRequestIDStale(cur) == IF cur = 0 THEN 1 ELSE cur

\* atomic.AddInt64(&ws.requestID, 1)
NextRequestID(cur) == cur + 1

\* ws.requests[reqID] = waiter
AddToMap(reqs, id, waiter) == [reqs EXCEPT ![id] = waiter]

\* removeResponseWaiter that leaves the entry in the map
RemoveFromMapKeep(reqs, id, waiter) == reqs

\* the locked part of removeResponseWaiter: delete the entry if it is this waiter's
RemoveFromMap(reqs, id, waiter) ==
    IF reqs[id] # 0 /\ reqs[id] = waiter THEN [reqs EXCEPT ![id] = 0] ELSE reqs

\* a lookup that hands the frame to the oldest registered waiter, whatever its ID
LookupWaiterAny(reqs, id) ==
    IF \E i \in IDs : reqs[i] # 0
    THEN reqs[CHOOSE i \in IDs : reqs[i] # 0 /\ \A j \in IDs : reqs[j] # 0 => i <= j]
    ELSE 0

\* respChan, ok := ws.requests[msg.ID]
LookupWaiter(reqs, id) == reqs[id]

\* a select without the ctx.Done() case
CtxDoneNever(c) == FALSE

\* case <-ctx.Done()
CtxDone(c) == expired[c]

\* a getConn that returns the connection the client remembers, in the map or not
GetConnChoicesStale(key) ==
    IF key # 0 THEN {key}
    ELSE IF conns # {} THEN conns
    ELSE {0}

\* getConn: the client's connection if it is still in the map, else any, else nil
GetConnChoices(key) ==
    IF key \in conns THEN {key}
    ELSE IF conns # {} THEN conns
    ELSE {0}

\* a write to the connection is blocked: it holds conn.writeLock, and the others
\* wait for the lock
Stalled(k) == \E d \in Callers : pc[d] = "blocked" /\ cconn[d] = k

\* the request with ID i has been written to a connection: the agent answers
\* the requests it has been sent, in any order and any number of times
Written(i) ==
    \E c \in Callers :
        rid[c] = i /\ (pc[c] = "select" \/ outcome[c] \in {"response", "timeout"})

Active(c) == pc[c] \in {"write", "blocked", "select", "remove"}

\* request(): ctx is made, the ID allocated, the waiter registered by
\* ws.addResponseWaiter(msg.ID, respChan), and conn := ws.getConn(client);
\* if conn == nil { return error }. key is the client's connKey
Start(c) ==
    /\ pc[c] = "idle"
    /\ IF c = 1 THEN TRUE ELSE pc[c - 1] # "idle"
    /\ Len(allocLog) < NumCallers
    /\ requestID' = NextRequestID(requestID)
    /\ rid' = [rid EXCEPT ![c] = requestID']
    /\ allocLog' = Append(allocLog, requestID')
    /\ chans' = [chans EXCEPT ![requestID'] = NewChan]
    /\ requests' = AddToMap(requests, requestID', requestID')
    /\ expired' = [expired EXCEPT ![c] = FALSE]
    /\ got' = [got EXCEPT ![c] = 0]
    /\ \E key \in {0} \cup ConnKeys : \E k \in GetConnChoices(key) :
         /\ cconn' = [cconn EXCEPT ![c] = k]
         /\ outcome' = [outcome EXCEPT ![c] = IF k = 0 THEN "notconnected" ELSE "none"]
         /\ pc' = [pc EXCEPT ![c] = IF k = 0 THEN "remove" ELSE "write"]
    /\ UNCHANGED <<conns, connState, rpc, rframe, rchan, panics, returns>>
    /\ UNCHANGED otherThanTransport

\* conn.sendMessage(msg) writes the frame
WriteOk(c) ==
    /\ pc[c] = "write"
    /\ connState[cconn[c]] = "open"
    /\ ~Stalled(cconn[c])
    /\ pc' = [pc EXCEPT ![c] = "select"]
    /\ UNCHANGED <<requestID, requests, chans, conns, connState, rid, cconn, expired, outcome, got, rpc, rframe, rchan, panics,
                   allocLog, returns>>
    /\ UNCHANGED otherThanTransport

\* conn.sendMessage(msg) blocks in WriteJSON: the agent has stopped reading and
\* the write has no deadline; it ends when the connection is closed
WriteBlock(c) ==
    /\ pc[c] = "write"
    /\ connState[cconn[c]] = "open"
    /\ ~Stalled(cconn[c])
    /\ pc' = [pc EXCEPT ![c] = "blocked"]
    /\ UNCHANGED <<requestID, requests, chans, conns, connState, rid, cconn,
                   expired, outcome, got, rpc, rframe, rchan, panics, allocLog,
                   returns>>
    /\ UNCHANGED otherThanTransport

\* conn.sendMessage(msg) fails: the connection is closed
WriteErr(c) ==
    /\ pc[c] \in {"write", "blocked"}
    /\ connState[cconn[c]] # "open"
    /\ outcome' = [outcome EXCEPT ![c] = "writeerror"]
    /\ pc' = [pc EXCEPT ![c] = "remove"]
    /\ UNCHANGED <<requestID, requests, chans, conns, connState, rid, cconn, expired, got, rpc, rframe, rchan, panics, allocLog,
                   returns>>
    /\ UNCHANGED otherThanTransport

\* select: case resp := <-respChan
SelectRecv(c) ==
    /\ pc[c] = "select"
    /\ chans[rid[c]].buf # <<>>
    /\ got' = [got EXCEPT ![c] = Head(chans[rid[c]].buf)]
    /\ chans' = [chans EXCEPT ![rid[c]].buf = Tail(@)]
    /\ outcome' = [outcome EXCEPT ![c] = "response"]
    /\ pc' = [pc EXCEPT ![c] = "remove"]
    /\ UNCHANGED <<requestID, requests, conns, connState, rid, cconn, expired, rpc, rframe, rchan, panics, allocLog, returns>>
    /\ UNCHANGED otherThanTransport

\* select: case <-ctx.Done()
SelectTimeout(c) ==
    /\ pc[c] = "select"
    /\ CtxDone(c)
    /\ outcome' = [outcome EXCEPT ![c] = "timeout"]
    /\ pc' = [pc EXCEPT ![c] = "remove"]
    /\ UNCHANGED <<requestID, requests, chans, conns, connState, rid, cconn, expired, got, rpc, rframe, rchan, panics, allocLog,
                   returns>>
    /\ UNCHANGED otherThanTransport

\* the deferred removeResponseWaiter: the entry is deleted under the lock, then
\* close(waiter), and request() returns
RemoveWaiter(c) ==
    /\ pc[c] = "remove"
    /\ requests' = RemoveFromMap(requests, rid[c], rid[c])
    /\ chans' = [chans EXCEPT ![rid[c]].closed = TRUE]
    /\ returns' = [returns EXCEPT ![rid[c]] = Append(@, outcome[c])]
    /\ pc' = [pc EXCEPT ![c] = "done"]
    /\ cconn' = [cconn EXCEPT ![c] = 0]
    /\ expired' = [expired EXCEPT ![c] = FALSE]
    /\ UNCHANGED <<requestID, conns, connState, rid, outcome, got, rpc, rframe,
                   rchan, panics, allocLog>>
    /\ UNCHANGED otherThanTransport

\* the deadline of context.WithTimeout(.., requestTimeout) passes
TimerFire(c) ==
    /\ pc[c] \in {"write", "blocked", "select"}
    /\ ~expired[c]
    /\ expired' = [expired EXCEPT ![c] = TRUE]
    /\ UNCHANGED <<requestID, requests, chans, conns, connState, pc, rid,
                   cconn, outcome, got, rpc, rframe, rchan, panics,
                   allocLog, returns>>
    /\ UNCHANGED otherThanTransport

CallerStep(c) ==
    \/ Start(c)
    \/ WriteOk(c)
    \/ WriteBlock(c)
    \/ WriteErr(c)
    \/ SelectRecv(c)
    \/ SelectTimeout(c)
    \/ RemoveWaiter(c)

\* ServeHTTP: the upgrade succeeded and the connection is put into ws.conns
Accept(k) ==
    /\ connState[k] = "none"
    /\ IF k = 1 THEN TRUE ELSE connState[k - 1] # "none"
    /\ connState' = [connState EXCEPT ![k] = "open"]
    /\ conns' = conns \cup {k}
    /\ rpc' = [rpc EXCEPT ![k] = "read"]
    /\ UNCHANGED <<requestID, requests, chans, pc, rid, cconn,
                   expired, outcome, got, rframe, rchan, panics, allocLog, returns>>
    /\ UNCHANGED otherThanTransport

\* conn.ReadJSON(&msg) yields a response frame with ID i, and case MsgResponse
\* looks its waiter up under requestsLock.RLock; without a waiter the frame is
\* dropped ("unknown request ID")
ReadResponse(k, i) ==
    /\ rpc[k] = "read"
    /\ Written(i)
    /\ LET ch == LookupWaiter(requests, i) IN
         /\ rchan' = [rchan EXCEPT ![k] = ch]
         /\ rframe' = [rframe EXCEPT ![k] = IF ch # 0 THEN i ELSE 0]
         /\ rpc' = [rpc EXCEPT ![k] = IF ch # 0 THEN "send" ELSE "read"]
    /\ UNCHANGED <<requestID, requests, chans, conns, connState, pc, rid,
                   cconn, expired, outcome, got, panics, allocLog, returns>>
    /\ UNCHANGED otherThanTransport

\* conn.ReadJSON(&msg) fails: the loop breaks and the deferred function runs,
\* delete(ws.conns, key); conn.Close()
ReadError(k) ==
    /\ rpc[k] = "read"
    /\ conns' = conns \ {k}
    /\ connState' = [connState EXCEPT ![k] = "closed"]
    /\ rpc' = [rpc EXCEPT ![k] = "off"]
    /\ UNCHANGED <<requestID, requests, chans, pc, rid, cconn, expired,
                   outcome, got, rframe, rchan, panics, allocLog, returns>>
    /\ UNCHANGED otherThanTransport

\* select { case respChan <- resp: default: }. A send on a closed channel panics:
\* net/http recovers the handler's panic after its deferred function has run
Send(k) ==
    /\ rpc[k] = "send"
    /\ IF chans[rchan[k]].closed
       THEN /\ panics' = panics \cup {rframe[k]}
            /\ conns' = conns \ {k}
            /\ connState' = [connState EXCEPT ![k] = "closed"]
                    /\ rpc' = [rpc EXCEPT ![k] = "off"]
            /\ UNCHANGED chans
       ELSE /\ chans' = IF Len(chans[rchan[k]].buf) < ChanCap
                        THEN [chans EXCEPT ![rchan[k]].buf = Append(@, rframe[k])]
                        ELSE chans
            /\ rpc' = [rpc EXCEPT ![k] = "read"]
            /\ UNCHANGED <<panics, conns, connState>>
    /\ rchan' = [rchan EXCEPT ![k] = 0]
    /\ rframe' = [rframe EXCEPT ![k] = 0]
    /\ UNCHANGED <<requestID, requests, pc, rid, cconn, expired, outcome,
                   got, allocLog, returns>>
    /\ UNCHANGED otherThanTransport

(***************************************************************************)
(* Portal: handleWechatMessageLoopItem and the handlers it calls, on the   *)
(* remote-origin items the message loop takes from p.messages.             *)
(***************************************************************************)

MsgIDs == 1..NumMsgIDs

\* wechat.EventText, EventNotice, EventSystem, EventRevoke
EventTypes == {"text", "notice", "system", "revoke"}

Events == [id : MsgIDs, type : EventTypes]

\* wechat.EventPhoto, EventSticker, EventVideo, EventFile: the events that
\* convertWechatMedia uploads without converting them first
MediaEvents == [id : MsgIDs, type : {"media"}]

AllEvents == Events \cup MediaEvents

\* msgID := fmt.Sprint(msg.ID)
PlainID(id) == <<"", id>>

\* "FAKE::" + msgID
FakeID(id) == <<"FAKE::", id>>

MsgKeys == {PlainID(id) : id \in MsgIDs} \cup {FakeID(id) : id \in MsgIDs}

\* no record: the nil of GetByMsgID
NoMsg == [mxid |-> 0, type |-> "none"]

recentlyHandledLength == 100

\* what the loop's goroutine works on while it handles one item; resp is the
\* event ID of the last sendMessage (0: it failed)
PortalState ==
    [store |-> store, hub |-> hub, nextEventID |-> nextEventID,
     redactRequests |-> redactRequests, redacted |-> redacted,
     recentlyHandled |-> recentlyHandled,
     recentlyHandledIndex |-> recentlyHandledIndex, topic |-> topic, resp |-> 0]

\* DB.Message.GetByMsgID(p.Key, msgID): the record of the portal with this
\* message ID, records being unique per portal key and message ID
GetByMsgID(st, key) == st[key]

\* a record whose MXID always counts as fake
IsFakeMXIDAlways(mxid) == TRUE

\* Message.IsFakeMXID: the MXID has the prefix "me.lxduo.wechat.fake::"; the
\* event IDs of the hub are the positive numbers, the fake ones the negative
IsFakeMXID(mxid) == mxid < 0

\* isRecentlyHandled: for i := start; i != start; ... leaves the loop before its
\* first round, so no entry of the ring is compared
IsRecentlyHandled(s, key) ==
    \E i \in {} : s.recentlyHandled[i] = key

\* p.recentlyHandled[index] = recentlyHandledWrapper{..}; the ring is kept as
\* the entries written, every other entry holding the zero value
SetRecentlyHandled(ring, index, key) ==
    [i \in DOMAIN ring \cup {index} |-> IF i = index THEN key ELSE ring[i]]

\* markHandled that inserts no record
MarkHandledNoInsert(s, key, mxid, type) ==
    [s EXCEPT !.recentlyHandled =
                  SetRecentlyHandled(@, s.recentlyHandledIndex, key),
              !.recentlyHandledIndex = (@ + 1) % recentlyHandledLength]

\* finishHandling -> markHandled with msg == nil: Insert the record, then put
\* the ID into the ring
MarkHandled(s, key, mxid, type) ==
    [s EXCEPT !.store[key] = [mxid |-> mxid, type |-> type],
              !.recentlyHandled =
                  SetRecentlyHandled(@, s.recentlyHandledIndex, key),
              !.recentlyHandledIndex = (@ + 1) % recentlyHandledLength]

\* p.sendMessage: the hub takes the message and names its event, or fails;
\* origin is the type of the event, or for a media event the Body of the content
SendMessage(s, key, msgtype, origin, ok) ==
    IF ok
    THEN [s EXCEPT !.hub = @ \cup {[ev |-> s.nextEventID, key |-> key,
                                    msgtype |-> msgtype, origin |-> origin]},
                   !.nextEventID = @ + 1,
                   !.resp = s.nextEventID]
    ELSE [s EXCEPT !.resp = 0]

\* handleFakeMessage; intent is "ok", or "own": no double puppeting, a private
\* chat and the sender is the receiver
HandleFakeMessage(s, key, origin, intent, ok) ==
    IF IsRecentlyHandled(s, key) THEN s
    ELSE IF GetByMsgID(s.store, key) # NoMsg THEN s
    ELSE IF intent # "ok" THEN s
    ELSE LET r == SendMessage(s, key, "notice", origin, ok) IN
         IF r.resp = 0 THEN r ELSE MarkHandled(r, key, r.resp, "fake")

\* intent.RedactEvent, and p.MainIntent().RedactEvent after M_FORBIDDEN
RedactEvent(s, mxid, redact) ==
    [s EXCEPT !.redactRequests = @ \cup {mxid},
              !.redacted = IF redact \in {"ok", "forbidden-ok"}
                           THEN @ \cup {mxid} ELSE @]

\* handleWechatRevoke
HandleWechatRevoke(s, e, intent, ok, redact) ==
    IF ~AllowRedaction
    THEN HandleFakeMessage(s, FakeID(e.id), "revoke", intent, ok)
    ELSE LET msg == GetByMsgID(s.store, PlainID(e.id)) IN
         IF msg = NoMsg THEN s
         ELSE IF IsFakeMXID(msg.mxid) THEN s
         ELSE RedactEvent(s, msg.mxid, redact)

\* what p.uploadMedia returns: nil, mautrix.MTooLarge, an HTTPError with status
\* 413, another error
UploadResults == {"ok", "MTooLarge", "413", "error"}

\* data.Name, the Body of a media message
MediaName == "name"

\* makeMediaBridgeFailureMessage: a notice with the error in its body
makeMediaBridgeFailureMessage(bridgeErr) ==
    [msgtype |-> "notice", body |-> "Failed to bridge media: " \o bridgeErr]

\* convertWechatMedia that does not look at the error of p.uploadMedia
convertWechatMediaAnyway(upload) == [msgtype |-> "media", body |-> MediaName]

\* convertWechatMedia, from p.uploadMedia on
convertWechatMedia(upload) ==
    IF upload = "ok" THEN [msgtype |-> "media", body |-> MediaName]
    ELSE IF upload = "MTooLarge"
    THEN makeMediaBridgeFailureMessage("homeserver rejected too large file")
    ELSE IF upload = "413"
    THEN makeMediaBridgeFailureMessage("proxy rejected too large file")
    ELSE makeMediaBridgeFailureMessage("failed to upload media: " \o upload)

\* handleWechatEvent, called with a room. The sender is types.NewUserUID(..),
\* for which GetPuppetByUID returns a puppet: the intent is never nil
HandleWechatEvent(s, e, intent, ok, redact, upload) ==
    LET existingMsg == GetByMsgID(s.store, PlainID(e.id)) IN
    IF existingMsg # NoMsg
    THEN IF e.type = "revoke" THEN HandleWechatRevoke(s, e, intent, ok, redact)
         ELSE s
    ELSE IF intent # "ok" THEN s
    ELSE IF e.type = "system"
    THEN HandleFakeMessage(s, FakeID(e.id), "system", intent, ok)
    ELSE IF e.type = "media"
    THEN LET converted == convertWechatMedia(upload)
             r == SendMessage(s, PlainID(e.id), converted.msgtype, converted.body, ok)
         IN IF r.resp # 0 THEN MarkHandled(r, PlainID(e.id), r.resp, "normal")
            ELSE r
    ELSE LET s1 == IF e.type = "notice" THEN [s EXCEPT !.topic = e.id] ELSE s
             r == SendMessage(s1, PlainID(e.id), "text", e.type, ok)
         IN IF r.resp # 0 THEN MarkHandled(r, PlainID(e.id), r.resp, "normal")
            ELSE r

\* Puppet.IntentFor(portal): the ghost's own intent, unless the puppet has a
\* custom intent (0: nil) and the portal is not the private chat with it
IntentFor(puppetUID, customIntent, portalUID) ==
    IF customIntent = 0 THEN <<"default", puppetUID>>
    ELSE IF portalUID = puppetUID THEN <<"default", puppetUID>>
    ELSE <<"custom", customIntent>>

\* the intent test of handleWechatEvent and handleFakeMessage that lets
\* every sender through
MessageIntentAlways(custom, private, fromReceiver) == "ok"

\* !intent.IsCustomPuppet && p.IsPrivateChat() && sender.Uin == p.Key.Receiver.Uin
MessageIntent(custom, private, fromReceiver) ==
    IF ~custom /\ private /\ fromReceiver THEN "own" ELSE "ok"

\* "own": the sender is turned away by that test
Intents ==
    {MessageIntent(custom, private, fromReceiver) :
        custom \in BOOLEAN, private \in BOOLEAN, fromReceiver \in BOOLEAN}

RedactResults == {"ok", "forbidden-ok", "forbidden-fail", "error"}

\* a CreateMatrixRoom whose error is not looked at
CreationFailedIgnored(mxid, roomOk) == FALSE

\* len(p.MXID) == 0 and p.CreateMatrixRoom returns an error
CreationFailed(mxid, roomOk) == mxid = 0 /\ ~roomOk

\* handleMessageLoop gives handleWechatMessageLoopItem the item with event e.
\* Without a room CreateMatrixRoom makes one, or fails and the item is dropped.
handleWechatMessageLoopItem(e, roomOk, intent, ok, redact, upload) ==
    /\ nHandled < MaxItems
    /\ nHandled' = nHandled + 1
    /\ deliveries' = [deliveries EXCEPT ![e] = @ + 1]
    /\ IF CreationFailed(MXID, roomOk)
       THEN UNCHANGED <<MXID, roomsCreated, store, hub, nextEventID,
                        redactRequests, redacted, recentlyHandled,
                        recentlyHandledIndex, topic, revokedAfterBridge,
                        revokeAccepted>>
       ELSE LET r == HandleWechatEvent(PortalState, e, intent, ok, redact, upload)
                bridged == /\ e.type = "revoke"
                           /\ GetByMsgID(store, PlainID(e.id)).type = "normal"
            IN /\ MXID' = IF MXID = 0 THEN roomsCreated + 1 ELSE MXID
               /\ roomsCreated' = IF MXID = 0 THEN roomsCreated + 1 ELSE roomsCreated
               /\ store' = r.store
               /\ hub' = r.hub
               /\ nextEventID' = r.nextEventID
               /\ redactRequests' = r.redactRequests
               /\ redacted' = r.redacted
               /\ recentlyHandled' = r.recentlyHandled
               /\ recentlyHandledIndex' = r.recentlyHandledIndex
               /\ topic' = r.topic
               /\ revokedAfterBridge' = IF bridged THEN revokedAfterBridge \cup {e.id}
                                        ELSE revokedAfterBridge
               /\ revokeAccepted' = IF bridged /\ ~AllowRedaction /\ intent = "ok" /\ ok
                                    THEN revokeAccepted \cup {e.id}
                                    ELSE revokeAccepted
    /\ UNCHANGED AllowRedaction
    /\ UNCHANGED otherThanPortal

\* finishHandling -> markHandled with recent set, called once more than the
\* ring is long and MaxItems times on top; the message IDs take turns, and a
\* record that exists is updated
markHandled(id) ==
    /\ nHandled < recentlyHandledLength + MaxItems
    /\ id = (nHandled % NumMsgIDs) + 1
    /\ nHandled' = nHandled + 1
    /\ LET r == MarkHandled(PortalState, PlainID(id), nHandled + 1, "normal")
       IN /\ store' = r.store
          /\ recentlyHandled' = r.recentlyHandled
          /\ recentlyHandledIndex' = r.recentlyHandledIndex
    /\ UNCHANGED <<MXID, roomsCreated, hub, nextEventID, redactRequests,
                   redacted, topic, deliveries, revokedAfterBridge,
                   revokeAccepted, AllowRedaction>>
    /\ UNCHANGED otherThanPortal

(***************************************************************************)
(* Portal.CreateMatrixRoom, called by several triggers for one portal: the *)
(* message loop on an inbound message, ResyncGroups, StartPM.              *)
(***************************************************************************)

Triggers == 1..NumTriggers

\* the caller's test, len(portal.MXID) == 0, before it calls CreateMatrixRoom
TriggerCheck(t) ==
    /\ tpc[t] = "idle"
    /\ tpc' = [tpc EXCEPT ![t] = IF MXID = 0 THEN "call" ELSE "done"]
    /\ observed' = [observed EXCEPT ![t] = MXID]
    /\ UNCHANGED <<MXID, roomsCreated, roomCreateLock>>
    /\ UNCHANGED otherThanRoom

\* CreateMatrixRoom: if len(p.MXID) > 0 { return nil }, before the lock is taken
CreateMatrixRoomCheck(t) ==
    /\ tpc[t] = "call"
    /\ tpc' = [tpc EXCEPT ![t] = IF MXID = 0 THEN "lock" ELSE "done"]
    /\ observed' = [observed EXCEPT ![t] = MXID]
    /\ UNCHANGED <<MXID, roomsCreated, roomCreateLock>>
    /\ UNCHANGED otherThanRoom

\* p.roomCreateLock.Lock()
RoomCreateLock(t) ==
    /\ tpc[t] = "lock"
    /\ roomCreateLock = 0
    /\ roomCreateLock' = t
    /\ tpc' = [tpc EXCEPT ![t] = "create"]
    /\ UNCHANGED <<MXID, roomsCreated, observed>>
    /\ UNCHANGED otherThanRoom

\* under the lock, with no second look at p.MXID: intent.CreateRoom(req), and on
\* success p.MXID = resp.RoomID; on an error of EnsureRegistered or CreateRoom
\* the function returns it
CreateRoom(t, ok) ==
    /\ tpc[t] = "create"
    /\ IF ok
       THEN /\ roomsCreated' = roomsCreated + 1
            /\ MXID' = roomsCreated + 1
            /\ observed' = [observed EXCEPT ![t] = roomsCreated + 1]
            /\ tpc' = [tpc EXCEPT ![t] = "unlock"]
       ELSE /\ tpc' = [tpc EXCEPT ![t] = "unlockerr"]
            /\ UNCHANGED <<roomsCreated, MXID, observed>>
    /\ UNCHANGED roomCreateLock
    /\ UNCHANGED otherThanRoom

\* the deferred p.roomCreateLock.Unlock(), and CreateMatrixRoom returns
RoomCreateUnlock(t) ==
    /\ tpc[t] \in {"unlock", "unlockerr"}
    /\ roomCreateLock' = 0
    /\ tpc' = [tpc EXCEPT ![t] = IF tpc[t] = "unlock" THEN "done" ELSE "failed"]
    /\ UNCHANGED <<MXID, roomsCreated, observed>>
    /\ UNCHANGED otherThanRoom

(***************************************************************************)
(* The way of an event into the portal: the connection reader starts a     *)
(* goroutine per remote event, processEvent sends it into p.messages,      *)
(* ReceiveMatrixEvent sends a hub event into p.matrixMessages, and         *)
(* handleMessageLoop takes the items of both channels. Items are named by  *)
(* their number in reading order and in submission order; what the         *)
(* handlers do with a remote-origin item is handleWechatMessageLoopItem    *)
(* above.                                                                  *)
(***************************************************************************)

\* a send that puts the item at the head of the channel
EnqueueFront(q, x) == <<x>> \o q

\* ch <- x on a buffered channel with room
Enqueue(q, x) == Append(q, x)

\* ServeHTTP: case MsgRequest with ReqEvent; with a client for msg.MXID,
\* go client.processFunc(event), else the event is dropped
ReadEvent(known) ==
    /\ nread < MaxRemoteEvents
    /\ nread' = nread + 1
    /\ spawned' = IF known THEN spawned \cup {nread + 1} ELSE spawned
    /\ UNCHANGED <<messages, processedLog, nsubmitted, matrixMessages, remoteLog>>
    /\ UNCHANGED otherThanLoop

\* User.processEvent in its goroutine: portal.messages <- PortalMessage{..}
processEvent(n) ==
    /\ n \in spawned
    /\ Len(messages) < PortalMessageBuffer
    /\ messages' = Enqueue(messages, n)
    /\ spawned' = spawned \ {n}
    /\ UNCHANGED <<nread, processedLog, nsubmitted, matrixMessages, remoteLog>>
    /\ UNCHANGED otherThanLoop

\* event.EventMessage, or a type HandleMatrixMessage is not called for
HubEventTypes == {"message", "redaction"}

\* Portal.ReceiveMatrixEvent: with the permission level of a user,
\* p.matrixMessages <- PortalMatrixMessage{..}
ReceiveMatrixEvent(type, permitted) ==
    /\ nsubmitted < MaxHubEvents
    /\ IF permitted
       THEN /\ Len(matrixMessages) < PortalMessageBuffer
            /\ matrixMessages' =
                   Enqueue(matrixMessages, [n |-> nsubmitted + 1, type |-> type])
       ELSE UNCHANGED matrixMessages
    /\ nsubmitted' = nsubmitted + 1
    /\ UNCHANGED <<nread, spawned, messages, processedLog, remoteLog>>
    /\ UNCHANGED otherThanLoop

\* handleMessageLoop: case msg := <-p.messages
LoopMessages ==
    /\ messages # <<>>
    /\ processedLog' = Append(processedLog, Head(messages))
    /\ messages' = Tail(messages)
    /\ UNCHANGED <<nread, spawned, nsubmitted, matrixMessages, remoteLog>>
    /\ UNCHANGED otherThanLoop

\* canBridgeFrom fails; the content is not bridged (replyFailure); or
\* sender.Client.SendEvent(msg) is called and returns
MatrixOutcomes == {"cannotbridge", "unsupported", "sent", "senderror"}

\* handleMessageLoop: case msg := <-p.matrixMessages, handleMatrixMessageLoopItem
\* and for a message HandleMatrixMessage, which returns after SendEvent has
LoopMatrixMessages(result) ==
    /\ matrixMessages # <<>>
    /\ LET msg == Head(matrixMessages) IN
         remoteLog' = IF msg.type = "message" /\ result \in {"sent", "senderror"}
                      THEN Append(remoteLog, msg.n)
                      ELSE remoteLog
    /\ matrixMessages' = Tail(matrixMessages)
    /\ UNCHANGED <<nread, spawned, messages, processedLog, nsubmitted>>
    /\ UNCHANGED otherThanLoop

(***************************************************************************)
(* WechatService with one current connection (wechatservice.go):           *)
(* ServeHTTP, RequestWebsocket, SendWebsocket and the waiter map.          *)
(***************************************************************************)

WsCallers == 1..NumWsCallers

ReqIDs == 1..NumWsCallers

Sockets == 1..NumSockets

\* the deferred function of ServeHTTP without its test of ws.conn == conn
ClearConnAlways(cur, k) == 0

\* the deferred function of ServeHTTP: if ws.conn == conn { ws.conn = nil }
ClearConn(cur, k) == IF cur = k THEN 0 ELSE cur

\* the request with this ReqID has been written to a websocket
WsWritten(i) ==
    \E c \in WsCallers :
        ReqID[c] = i /\ (wpc[c] = "select" \/ reqResult[c] \in {"response", "ctxdone"})

\* ServeHTTP: the upgrade succeeded; ws.conn = conn under connLock. The
\* websocket that was current stays open and its read loop goes on
WsAccept(k) ==
    /\ sockState[k] = "none"
    /\ IF k = 1 THEN TRUE ELSE sockState[k - 1] # "none"
    /\ sockState' = [sockState EXCEPT ![k] = "open"]
    /\ wsConn' = k
    /\ UNCHANGED <<websocketRequests, wsRequestID, respChans, wpc, ReqID,
                   sendConn, reqResult, reqResp>>
    /\ UNCHANGED otherThanWebsocket

\* ServeHTTP: conn.ReadJSON fails; the loop breaks, the deferred function runs
WsReadError(k) ==
    /\ sockState[k] = "open"
    /\ wsConn' = ClearConn(wsConn, k)
    /\ sockState' = [sockState EXCEPT ![k] = "closed"]
    /\ UNCHANGED <<websocketRequests, wsRequestID, respChans, wpc, ReqID,
                   sendConn, reqResult, reqResp>>
    /\ UNCHANGED otherThanWebsocket

\* ServeHTTP: a frame with CommandResponse or CommandError and ReqID i is read
\* from websocket k; under websocketRequestsLock.RLock the waiter is looked up
\* and select { case respChan <- ..: default: } runs
WsReadResponse(k, i) ==
    /\ sockState[k] = "open"
    /\ WsWritten(i)
    /\ respChans' =
           IF websocketRequests[i] # 0 /\ respChans[websocketRequests[i]] = <<>>
           THEN [respChans EXCEPT ![websocketRequests[i]] = <<<<i, k>>>>]
           ELSE respChans
    /\ UNCHANGED <<wsConn, websocketRequests, wsRequestID, sockState, wpc, ReqID,
                   sendConn, reqResult, reqResp>>
    /\ UNCHANGED otherThanWebsocket

\* RequestWebsocket: the ReqID is allocated, the waiter added, and SendWebsocket
\* reads conn := ws.conn; with nil it returns ErrWebsocketNotConnected
WsStart(c) ==
    /\ wpc[c] = "idle"
    /\ IF c = 1 THEN TRUE ELSE wpc[c - 1] # "idle"
    /\ wsRequestID' = wsRequestID + 1
    /\ ReqID' = [ReqID EXCEPT ![c] = wsRequestID + 1]
    /\ respChans' = [respChans EXCEPT ![wsRequestID + 1] = <<>>]
    /\ websocketRequests' =
           [websocketRequests EXCEPT ![wsRequestID + 1] = wsRequestID + 1]
    /\ sendConn' = [sendConn EXCEPT ![c] = wsConn]
    /\ reqResult' = [reqResult EXCEPT ![c] =
                         IF wsConn = 0 THEN "notconnected" ELSE "none"]
    /\ wpc' = [wpc EXCEPT ![c] = IF wsConn = 0 THEN "remove" ELSE "write"]
    /\ UNCHANGED <<wsConn, sockState, reqResp>>
    /\ UNCHANGED otherThanWebsocket

\* SendWebsocket: under writeLock, SetWriteDeadline and conn.WriteJSON(cmd) on
\* the websocket read at its start; the write fails on a closed websocket and
\* at the deadline
SendWebsocket(c, ok) ==
    /\ wpc[c] = "write"
    /\ IF ok /\ sockState[sendConn[c]] = "open"
       THEN /\ wpc' = [wpc EXCEPT ![c] = "select"]
            /\ UNCHANGED reqResult
       ELSE /\ wpc' = [wpc EXCEPT ![c] = "remove"]
            /\ reqResult' = [reqResult EXCEPT ![c] = "writeerror"]
    /\ UNCHANGED <<wsConn, websocketRequests, wsRequestID, respChans, sockState,
                   ReqID, sendConn, reqResp>>
    /\ UNCHANGED otherThanWebsocket

\* RequestWebsocket: select, case resp := <-respChan
WsSelectRecv(c) ==
    /\ wpc[c] = "select"
    /\ respChans[ReqID[c]] # <<>>
    /\ reqResp' = [reqResp EXCEPT ![c] = Head(respChans[ReqID[c]])]
    /\ respChans' = [respChans EXCEPT ![ReqID[c]] = Tail(@)]
    /\ reqResult' = [reqResult EXCEPT ![c] = "response"]
    /\ wpc' = [wpc EXCEPT ![c] = "remove"]
    /\ UNCHANGED <<wsConn, websocketRequests, wsRequestID, sockState, ReqID,
                   sendConn>>
    /\ UNCHANGED otherThanWebsocket

\* RequestWebsocket: select, case <-ctx.Done(), the caller's ctx being done
WsSelectTimeout(c) ==
    /\ wpc[c] = "select"
    /\ reqResult' = [reqResult EXCEPT ![c] = "ctxdone"]
    /\ wpc' = [wpc EXCEPT ![c] = "remove"]
    /\ UNCHANGED <<wsConn, websocketRequests, wsRequestID, respChans, sockState,
                   ReqID, sendConn, reqResp>>
    /\ UNCHANGED otherThanWebsocket

\* the deferred removeWebsocketResponseWaiter, and RequestWebsocket returns
removeWebsocketResponseWaiter(c) ==
    /\ wpc[c] = "remove"
    /\ websocketRequests' =
           IF websocketRequests[ReqID[c]] = ReqID[c]
           THEN [websocketRequests EXCEPT ![ReqID[c]] = 0]
           ELSE websocketRequests
    /\ wpc' = [wpc EXCEPT ![c] = "done"]
    /\ UNCHANGED <<wsConn, wsRequestID, respChans, sockState, ReqID, sendConn,
                   reqResult, reqResp>>
    /\ UNCHANGED otherThanWebsocket

(***************************************************************************)
(* The registry of portals: GetPortalByUID, GetPortalByMXID, loadDBPortal, *)
(* and the callers that give a portal its room or delete it.               *)
(***************************************************************************)

PortalKeys == 1..NumPortalKeys

RoomIDs == 1..NumRooms

NoRow == -1

\* DB.Portal.GetByUID(key): the row with this key, or nil
GetByUID(db, key) == db[key]

\* DB.Portal.GetByMXID(mxid): the keys of the rows with this room ID
GetByMXID(db, mxid) == {key \in PortalKeys : db[key] = mxid}

\* loadDBPortal: if len(portal.MXID) > 0 { br.portalsByMXID[portal.MXID] = portal }
LoadIntoMXIDMap(byMXID, mxid, portal) ==
    IF mxid # 0 THEN [byMXID EXCEPT ![mxid] = portal] ELSE byMXID

\* loadDBPortal with a row, or with a key and no row: NewPortal, whose
\* newBlankPortal starts the loop, and the Portal is put into the maps
loadDBPortal(key, mxid) ==
    /\ Len(portals) < MaxPortals
    /\ portals' = Append(portals, [Key |-> key, MXID |-> mxid, dirty |-> FALSE])
    /\ portalsByUID' = [portalsByUID EXCEPT ![key] = Len(portals) + 1]
    /\ portalsByMXID' = LoadIntoMXIDMap(portalsByMXID, mxid, Len(portals) + 1)

\* GetPortalByUID without an entry for the key: under portalsLock,
\* loadDBPortal(DB.Portal.GetByUID(key), &key), which inserts the missing row.
\* With an entry it returns the Portal and changes nothing
GetPortalByUID(key) ==
    /\ portalsByUID[key] = 0
    /\ LET row == GetByUID(dbPortals, key) IN
         /\ loadDBPortal(key, IF row = NoRow THEN 0 ELSE row)
         /\ dbPortals' = IF row = NoRow THEN [dbPortals EXCEPT ![key] = 0]
                         ELSE dbPortals
    /\ UNCHANGED roomsMade
    /\ UNCHANGED otherThanRegistry

\* GetPortalByMXID without an entry for the room: under portalsLock,
\* loadDBPortal(DB.Portal.GetByMXID(mxid), nil), which returns nil without a row
GetPortalByMXID(mxid) ==
    /\ portalsByMXID[mxid] = 0
    /\ \E key \in GetByMXID(dbPortals, mxid) : loadDBPortal(key, mxid)
    /\ UNCHANGED <<dbPortals, roomsMade>>
    /\ UNCHANGED otherThanRegistry

\* CreateMatrixRoom on the Portal of the key, which has no room: the hub makes
\* the room, p.MXID = resp.RoomID, and under portalsLock
\* p.bridge.portalsByMXID[p.MXID] = p; p.Update is still to come
CreateMatrixRoom(key) ==
    /\ portalsByUID[key] # 0
    /\ portals[portalsByUID[key]].MXID = 0
    /\ roomsMade < NumRooms
    /\ roomsMade' = roomsMade + 1
    /\ portals' = [portals EXCEPT ![portalsByUID[key]] =
                       [@ EXCEPT !.MXID = roomsMade + 1, !.dirty = TRUE]]
    /\ portalsByMXID' = [portalsByMXID EXCEPT ![roomsMade + 1] = portalsByUID[key]]
    /\ UNCHANGED <<portalsByUID, dbPortals>>
    /\ UNCHANGED otherThanRegistry

\* CreatePrivatePortal for the room a hub user made and invited the ghost to,
\* after its GetPortalByUID(key): a Portal without a room, or with a room into
\* which ensureUserInvited fails, goes to createPrivatePortalFromInvite, which
\* sets portal.MXID = roomID; portal.Update is still to come
CreatePrivatePortal(key, invited) ==
    /\ portalsByUID[key] # 0
    /\ IF portals[portalsByUID[key]].MXID = 0 THEN TRUE ELSE ~invited
    /\ roomsMade < NumRooms
    /\ roomsMade' = roomsMade + 1
    /\ portals' = [portals EXCEPT ![portalsByUID[key]] =
                       [@ EXCEPT !.MXID = roomsMade + 1, !.dirty = TRUE]]
    /\ UNCHANGED <<portalsByUID, portalsByMXID, dbPortals>>
    /\ UNCHANGED otherThanRegistry

\* p.Update(nil): the row of the Portal's key gets its room ID
UpdatePortal(p) ==
    /\ p \in 1..Len(portals)
    /\ portals[p].dirty
    /\ portals' = [portals EXCEPT ![p].dirty = FALSE]
    /\ dbPortals' = IF dbPortals[portals[p].Key] = NoRow THEN dbPortals
                    ELSE [dbPortals EXCEPT ![portals[p].Key] = portals[p].MXID]
    /\ UNCHANGED <<portalsByUID, portalsByMXID, roomsMade>>
    /\ UNCHANGED otherThanRegistry

\* StartPM on the Portal of the key, which has a room into which
\* ensureUserInvited fails: portal.MXID = "", then CreateMatrixRoom, which
\* with a room from the hub registers the new room ID; p.Update is still to
\* come.  When the hub makes no room, MXID stays empty and nothing is saved
StartPM(key, roomOk) ==
    /\ portalsByUID[key] # 0
    /\ portals[portalsByUID[key]].MXID # 0
    /\ IF roomOk
       THEN /\ roomsMade < NumRooms
            /\ roomsMade' = roomsMade + 1
            /\ portals' = [portals EXCEPT ![portalsByUID[key]] =
                               [@ EXCEPT !.MXID = roomsMade + 1, !.dirty = TRUE]]
            /\ portalsByMXID' =
                   [portalsByMXID EXCEPT ![roomsMade + 1] = portalsByUID[key]]
       ELSE /\ portals' = [portals EXCEPT ![portalsByUID[key]].MXID = 0]
            /\ UNCHANGED <<roomsMade, portalsByMXID>>
    /\ UNCHANGED <<portalsByUID, dbPortals>>
    /\ UNCHANGED otherThanRegistry

\* the maps and the table
Registry ==
    [byUID |-> portalsByUID, byMXID |-> portalsByMXID, db |-> dbPortals]

\* Portal.Delete: the row of the key is deleted, and under portalsLock the
\* entries of p.Key and, if p.MXID is not empty, of p.MXID
Delete(reg, portal) ==
    [byUID |-> [reg.byUID EXCEPT ![portal.Key] = 0],
     byMXID |-> IF portal.MXID # 0
                THEN [reg.byMXID EXCEPT ![portal.MXID] = 0]
                ELSE reg.byMXID,
     db |-> [reg.db EXCEPT ![portal.Key] = NoRow]]

\* Portal.Delete on a Portal that its caller holds
DeletePortal(p) ==
    /\ p \in 1..Len(portals)
    /\ ~portals[p].dirty
    /\ LET after == Delete(Registry, portals[p])
       IN /\ dbPortals' = after.db
          /\ portalsByUID' = after.byUID
          /\ portalsByMXID' = after.byMXID
    /\ UNCHANGED <<portals, roomsMade>>
    /\ UNCHANGED otherThanRegistry

(***************************************************************************)
(* The message table of a portal with a room: the records that the         *)
(* handlers of remote-origin events and HandleMatrixMessage insert.        *)
(***************************************************************************)

\* evt.Timestamp of the hub events, in milliseconds
Timestamps == 1..NumTimestamps

\* msgID := "FAKE::" + strconv.FormatInt(evt.Timestamp, 10)
HubMsgID(ts) == <<"FAKE::", ts>>

\* INSERT INTO message: the table takes the row
Insert(table, key, mxid, type) ==
    table \cup {[key |-> key, mxid |-> mxid, type |-> type]}

\* what GetByMsgID finds in the table for each message ID
StoreOf(table) ==
    [key \in MsgKeys |->
        IF \E row \in table : row.key = key
        THEN LET row == CHOOSE row \in table : row.key = key
             IN [mxid |-> row.mxid, type |-> row.type]
        ELSE NoMsg]

\* handleWechatEvent on the table: the records it inserts are those of
\* markHandled
handleWechatEvent(e, intent, ok) ==
    /\ nHandled < MaxItems
    /\ nHandled' = nHandled + 1
    /\ outbound' = [outbound EXCEPT !.last = intent]
    /\ LET before == StoreOf(rows)
           r == HandleWechatEvent([PortalState EXCEPT !.store = before],
                                  e, intent, ok, "ok", "ok")
       IN /\ rows' = rows \cup {[key |-> key, mxid |-> r.store[key].mxid,
                                 type |-> r.store[key].type] :
                                    key \in {k \in MsgKeys : r.store[k] # before[k]}}
          /\ hub' = r.hub
          /\ nextEventID' = r.nextEventID
          /\ recentlyHandled' = r.recentlyHandled
          /\ recentlyHandledIndex' = r.recentlyHandledIndex
          /\ topic' = r.topic
    /\ UNCHANGED <<AllowRedaction, MXID, roomsCreated, store, redactRequests,
                   redacted, deliveries, revokedAfterBridge, revokeAccepted>>
    /\ UNCHANGED otherThanStore

\* a canBridgeFrom that lets every sender through
canBridgeFromAnyone(loggedIn, private, isReceiver) == "nil"

\* canBridgeFrom
canBridgeFrom(loggedIn, private, isReceiver) ==
    IF ~loggedIn THEN "errUserNotLoggedIn"
    ELSE IF private /\ ~isReceiver THEN "errDifferentUser"
    ELSE "nil"

\* the content of a hub event: text and emote; media that preprocessMatrixMedia
\* and ogg2mp3 take, and media that they do not; a msgtype of the default
\* branch; content that is no MessageEventContent
ContentTypes == {"text", "media", "badmedia", "other", "unparsed"}

\* what sender.Client.SendEvent returns: the agent's answer, the agent's
\* error, ErrNotConnected, the timeout
SendResults == {"ok", "agenterror", "notconnected", "timeout"}

\* whether HandleMatrixMessage reaches sender.Client.SendEvent
Converts(content) == content \in {"text", "media"}

\* a failure that is not reported to the room
replyFailureSilent(ts, text) == {}

\* replyFailure: p.sendMessage of a notice with the text that replies to the
\* event; the replies that are made
replyFailure(ts, text) == {<<ts, text>>}

\* the notice of replyFailure in the room, when the hub takes it
FailureNotice(ts, text, ev) ==
    [ev |-> ev, key |-> HubMsgID(ts), msgtype |-> "notice", origin |-> text]

\* a HandleMatrixMessage that records the event whatever SendEvent returned
RecordsAlways(send) == TRUE

\* if _, err := sender.Client.SendEvent(msg); err != nil {replyFailure} else
\* {finishHandling}
Records(send) == send = "ok"

\* HandleMatrixMessage for the hub event that the hub has named and stamped
\* with ts.  canBridgeFrom rejects it without a word; content that is not
\* converted is answered with replyFailure; after sender.Client.SendEvent(msg)
\* has succeeded, finishHandling(nil, msgID, ..) inserts the record and puts
\* msgID into the ring, and after it has failed replyFailure answers.  ok: the
\* hub takes the notice of replyFailure
HandleMatrixMessage(ts, loggedIn, private, isReceiver, content, send, ok) ==
    /\ nHandled < MaxItems
    /\ nHandled' = nHandled + 1
    /\ LET bridge == canBridgeFrom(loggedIn, private, isReceiver) = "nil"
           sends == bridge /\ Converts(content)
           records == sends /\ Records(send)
           fails == bridge /\ ~(sends /\ send = "ok")
           text == IF sends THEN send ELSE content
           replied == IF fails THEN replyFailure(ts, text) ELSE {}
       IN /\ outbound' =
                 [requests |-> IF sends THEN outbound.requests \cup {ts}
                               ELSE outbound.requests,
                  notices |-> outbound.notices \cup replied,
                  last |-> "hub"]
          /\ IF records
             THEN /\ rows' = Insert(rows, HubMsgID(ts), nextEventID, "normal")
                  /\ recentlyHandled' =
                         SetRecentlyHandled(recentlyHandled, recentlyHandledIndex,
                                            HubMsgID(ts))
                  /\ recentlyHandledIndex' =
                         (recentlyHandledIndex + 1) % recentlyHandledLength
             ELSE UNCHANGED <<rows, recentlyHandled, recentlyHandledIndex>>
          /\ IF replied # {} /\ ok
             THEN /\ hub' = hub \cup {FailureNotice(ts, text, nextEventID + 1)}
                  /\ nextEventID' = nextEventID + 2
             ELSE /\ hub' = hub
                  /\ nextEventID' = nextEventID + 1
    /\ UNCHANGED <<AllowRedaction, MXID, roomsCreated, store, redactRequests,
                   redacted, topic, deliveries, revokedAfterBridge, revokeAccepted>>
    /\ UNCHANGED otherThanStore

\* nothing was given to the agent, nothing was answered
OutboundInit ==
    outbound = [requests |-> {}, notices |-> {}, last |-> "none"]

(***************************************************************************)
(* The users and br.usersByUsername, the index of their remote UIDs.       *)
(***************************************************************************)

BridgeUsers == 1..NumUsers
Accounts == 1..NumAccounts
EmptyUID == 0

\* u.Client.IsLoggedIn(): what the user's agent answers
IsLoggedIn(u) == agentAccount[u] # 0

\* fnLogin returns at once for a user that is logged in.  Otherwise the agent
\* logs in with the account that scans the code (an account is logged in at
\* one agent at a time), and MarkLogin takes the UID from GetSelf, which
\* is nil when the request fails
fnLogin(u, account, selfOk) ==
    /\ ~IsLoggedIn(u)
    /\ agentAccount' = [v \in BridgeUsers |->
                           IF v = u THEN account
                           ELSE IF agentAccount[v] = account THEN 0
                           ELSE agentAccount[v]]
    /\ IF selfOk
       THEN /\ userUID' = [userUID EXCEPT ![u] = account]
            /\ usersByUsername' = [usersByUsername EXCEPT ![account] = u]
       ELSE UNCHANGED <<userUID, usersByUsername>>
    /\ UNCHANGED otherThanUsers

\* removeFromUIDMap: the entry under the user's UID goes if it is the user's
removeFromUIDMap(index, u) ==
    [uid \in Accounts |->
        IF uid = userUID[u] /\ index[uid] = u THEN 0 ELSE index[uid]]

\* fnLogout returns at once for a user that is not logged in; otherwise
\* removeFromUIDMap, DeleteConnection, DeleteSession
fnLogout(u) ==
    /\ IsLoggedIn(u)
    /\ usersByUsername' = removeFromUIDMap(usersByUsername, u)
    /\ agentAccount' = [agentAccount EXCEPT ![u] = 0]
    /\ userUID' = [userUID EXCEPT ![u] = EmptyUID]
    /\ UNCHANGED otherThanUsers

\* the remote side ends the session of the user's agent
AgentLogout(u) ==
    /\ IsLoggedIn(u)
    /\ agentAccount' = [agentAccount EXCEPT ![u] = 0]
    /\ UNCHANGED <<userUID, usersByUsername>>
    /\ UNCHANGED otherThanUsers

\* the bridge starts again: NewWechatBridge makes an empty index, loadDBUser
\* reads a user's UID from its row and does not enter it into the index; the
\* agents keep their sessions
Restart ==
    /\ \E u \in BridgeUsers : userUID[u] # EmptyUID
    /\ usersByUsername' = [uid \in Accounts |-> 0]
    /\ UNCHANGED <<agentAccount, userUID>>
    /\ UNCHANGED otherThanUsers

UsersInit ==
    /\ agentAccount = [u \in BridgeUsers |-> 0]
    /\ userUID = [u \in BridgeUsers |-> EmptyUID]
    /\ usersByUsername = [uid \in Accounts |-> 0]

(***************************************************************************)
(* The puppets: br.puppets, br.puppetsByCustomMXID, the puppet table, and  *)
(* the double-puppet session of a puppet.                                  *)
(***************************************************************************)

PuppetUIDs == 1..NumPuppetUIDs
MXIDs == 1..NumMXIDs

\* what newCustomIntent and intent.Whoami, and tryRelogin after an unknown
\* token, come to
StartOutcomes == {"ok", "mismatch", "intenterror", "othererror",
                  "unknowntoken_relogin", "unknowntoken_norelogin"}

\* NewPuppet(dbPuppet): the fields come from the row, there is no session
NewPuppet(uid, custom) ==
    [UID |-> uid, CustomMXID |-> custom, AccessToken |-> custom # 0,
     customIntent |-> "none"]

clearCustomMXID(p) ==
    [p EXCEPT !.CustomMXID = 0, !.AccessToken = FALSE, !.customIntent = "none"]

\* a variant that keeps the fields of a puppet whose validation failed
StartCustomMXIDKeep(p, reloginOnFail, whoami) ==
    [puppet |-> p, err |-> whoami # "ok"]

\* StartCustomMXID: the puppet it leaves and whether it returns an error
StartCustomMXID(p, reloginOnFail, whoami) ==
    IF p.CustomMXID = 0
    THEN [puppet |-> clearCustomMXID(p), err |-> FALSE]
    ELSE IF whoami = "intenterror"
    THEN [puppet |-> clearCustomMXID(p), err |-> TRUE]
    ELSE IF whoami \in {"othererror", "unknowntoken_relogin", "unknowntoken_norelogin"}
    THEN IF ~reloginOnFail
         THEN [puppet |-> clearCustomMXID(p), err |-> TRUE]
         ELSE IF whoami = "unknowntoken_norelogin"
         THEN [puppet |-> clearCustomMXID(p), err |-> TRUE]
         ELSE IF whoami = "unknowntoken_relogin"
         THEN [puppet |-> [p EXCEPT !.AccessToken = TRUE, !.customIntent = "relogin"],
               err |-> FALSE]
         ELSE [puppet |-> [p EXCEPT !.customIntent = "unvalidated"], err |-> FALSE]
    ELSE IF whoami = "mismatch"
    THEN [puppet |-> clearCustomMXID(p), err |-> TRUE]
    ELSE [puppet |-> [p EXCEPT !.customIntent = "validated"], err |-> FALSE]

\* the entry of the puppet's custom hub user, if it has one
RegisterCustom(index, i) ==
    [m \in MXIDs |-> IF m = puppetObjs'[i].CustomMXID THEN i ELSE index[m]]

GetPuppetByUID(uid) ==
    /\ puppets[uid] = 0
    /\ Len(puppetObjs) < MaxPuppets
    /\ LET custom == IF dbPuppetRows[uid] = -1 THEN 0 ELSE dbPuppetRows[uid]
           i == Len(puppetObjs) + 1
       IN /\ dbPuppetRows' = [dbPuppetRows EXCEPT ![uid] = custom]
          /\ puppetObjs' = Append(puppetObjs, NewPuppet(uid, custom))
          /\ puppets' = [puppets EXCEPT ![uid] = i]
          /\ puppetsByCustomMXID' = RegisterCustom(puppetsByCustomMXID, i)
    /\ UNCHANGED otherThanPuppets

\* a miss in puppetsByCustomMXID: the row with that custom_mxid is loaded
GetPuppetByCustomMXID(mxid) ==
    /\ puppetsByCustomMXID[mxid] = 0
    /\ Len(puppetObjs) < MaxPuppets
    /\ \E uid \in PuppetUIDs :
          /\ dbPuppetRows[uid] = mxid
          /\ LET i == Len(puppetObjs) + 1
             IN /\ puppetObjs' = Append(puppetObjs, NewPuppet(uid, mxid))
                /\ puppets' = [puppets EXCEPT ![uid] = i]
                /\ puppetsByCustomMXID' = [puppetsByCustomMXID EXCEPT ![mxid] = i]
    /\ UNCHANGED dbPuppetRows
    /\ UNCHANGED otherThanPuppets

\* SwitchCustomMXID on the puppet that GetPuppetByUID returns; mxid 0 is ""
SwitchCustomMXID(uid, mxid, whoami) ==
    /\ puppets[uid] # 0
    /\ LET i == puppets[uid]
           prevCustomMXID == puppetObjs[i].CustomMXID
           r == StartCustomMXID([puppetObjs[i] EXCEPT !.CustomMXID = mxid,
                                                      !.AccessToken = mxid # 0],
                                FALSE, whoami)
       IN /\ puppetObjs' = [puppetObjs EXCEPT ![i] = r.puppet]
          /\ IF r.err
             THEN UNCHANGED <<puppetsByCustomMXID, dbPuppetRows>>
             ELSE /\ puppetsByCustomMXID' =
                        [m \in MXIDs |->
                            IF m = r.puppet.CustomMXID THEN i
                            ELSE IF m = prevCustomMXID THEN 0
                            ELSE puppetsByCustomMXID[m]]
                  /\ dbPuppetRows' = [dbPuppetRows EXCEPT ![uid] = r.puppet.CustomMXID]
    /\ UNCHANGED puppets
    /\ UNCHANGED otherThanPuppets

\* StartUsers: StartCustomMXID(true) on a puppet that has a custom hub user
StartUsers(i, whoami) ==
    /\ i \in DOMAIN puppetObjs
    /\ puppetObjs[i].CustomMXID # 0
    /\ puppetObjs' = [puppetObjs EXCEPT
                         ![i] = StartCustomMXID(puppetObjs[i], TRUE, whoami).puppet]
    /\ UNCHANGED <<puppets, puppetsByCustomMXID, dbPuppetRows>>
    /\ UNCHANGED otherThanPuppets

\* tryAutomaticDoublePuppeting of the user with the hub ID mxid and the remote
\* UID uid: puppet.CustomMXID = user.MXID, then the StartCustomMXID(true) beside
\* it, which installs the session and the token that DoublePuppet.Setup
\* returns and calls ClearCustomMXID when Setup returns an error
tryAutomaticDoublePuppeting(uid, mxid, setupOk) ==
    /\ puppets[uid] # 0
    /\ puppetObjs[puppets[uid]].CustomMXID = 0
    /\ puppetObjs' = [puppetObjs EXCEPT ![puppets[uid]] =
           IF setupOk
           THEN [@ EXCEPT !.CustomMXID = mxid, !.AccessToken = TRUE,
                          !.customIntent = "validated"]
           ELSE clearCustomMXID(@)]
    /\ UNCHANGED <<puppets, puppetsByCustomMXID, dbPuppetRows>>
    /\ UNCHANGED otherThanPuppets

PuppetsInit ==
    /\ puppetObjs = <<>>
    /\ puppets = [uid \in PuppetUIDs |-> 0]
    /\ puppetsByCustomMXID = [m \in MXIDs |-> 0]
    /\ dbPuppetRows = [uid \in PuppetUIDs |-> -1]

(***************************************************************************)
(* handleMessageLoop with handlers that can panic.  An item is named by    *)
(* its queue and its number.                                               *)
(***************************************************************************)

\* a handler without the deferred recover(): the panic ends the goroutine
ReturnsToLoopUnrecovered(panicked) == ~panicked

\* handleWechatMessageLoopItem and handleMatrixMessageLoopItem: the deferred
\* function calls recover(), logs the panic, and the handler returns to the
\* loop
ReturnsToLoop(panicked) ==
    IF panicked THEN TRUE ELSE TRUE

\* the loop has handled an item, whose handler panicked or did not
AfterItem(panicked) ==
    [running |-> ReturnsToLoop(panicked),
     panics |-> IF panicked THEN consumer.panics + 1 ELSE consumer.panics,
     handledAfterPanic |-> consumer.handledAfterPanic \/ consumer.panics > 0]

\* case msg := <-p.messages: p.handleWechatMessageLoopItem(msg)
TakeMessage(panicked) ==
    /\ consumer.running
    /\ messages # <<>>
    /\ panicked => consumer.panics < MaxPanics
    /\ consumer' = AfterItem(panicked)
    /\ messages' = Tail(messages)
    /\ UNCHANGED <<nread, spawned, processedLog, nsubmitted, matrixMessages, remoteLog>>
    /\ UNCHANGED otherThanConsumer

\* case msg := <-p.matrixMessages: p.handleMatrixMessageLoopItem(msg)
TakeMatrixMessage(panicked) ==
    /\ consumer.running
    /\ matrixMessages # <<>>
    /\ panicked => consumer.panics < MaxPanics
    /\ consumer' = AfterItem(panicked)
    /\ matrixMessages' = Tail(matrixMessages)
    /\ UNCHANGED <<nread, spawned, messages, processedLog, nsubmitted, remoteLog>>
    /\ UNCHANGED otherThanConsumer

\* go portal.handleMessageLoop()
ConsumerInit ==
    consumer = [running |-> TRUE, panics |-> 0, handledAfterPanic |-> FALSE]

(***************************************************************************)
(* The name, topic and avatar of a portal, their "set" flags, and the      *)
(* state of the portal's hub room.  0 is the empty value.                  *)
(***************************************************************************)

Values == 1..NumValues

\* PrivateChatTopic
PrivateChatTopic == 1

\* a portal without a room; always: Bridge.PrivateChatPortalMeta is "always"
NewMeta(private, always) ==
    [private |-> private, always |-> always, hasRoom |-> FALSE,
     Name |-> 0, NameSet |-> FALSE, Topic |-> 0, TopicSet |-> FALSE,
     Avatar |-> 0, AvatarSet |-> FALSE,
     room |-> [name |-> 0, topic |-> 0, avatar |-> 0],
     failed |-> {}, attempted |-> "none"]

\* shouldSetDMRoomMetadata, for a portal without encryption
shouldSetDMRoomMetadata(m) == ~m.private \/ m.always

\* the hub call of a field: with pushOk the room takes the value
Push(m, field, value, pushOk) ==
    [m EXCEPT !.attempted = field,
              !.room[field] = IF pushOk THEN value ELSE @,
              !.failed = IF pushOk THEN @ \ {field} ELSE @ \cup {field}]

\* UpdateName
UpdateNameOf(m, newName, pushOk) ==
    IF m.Name # newName \/ (~m.NameSet /\ m.hasRoom /\ shouldSetDMRoomMetadata(m))
    THEN LET m1 == [m EXCEPT !.Name = newName, !.NameSet = FALSE]
         IN IF m.hasRoom /\ shouldSetDMRoomMetadata(m)
            THEN [Push(m1, "name", newName, pushOk) EXCEPT !.NameSet = pushOk]
            ELSE m1
    ELSE m

\* UpdateTopic, which calls SetRoomTopic without looking at p.MXID: without a
\* room the call fails
UpdateTopicOf(m, newTopic, pushOk) ==
    IF m.Topic # newTopic \/ ~m.TopicSet
    THEN LET m1 == [m EXCEPT !.Topic = newTopic, !.TopicSet = FALSE]
             taken == pushOk /\ m.hasRoom
         IN [Push(m1, "topic", newTopic, taken) EXCEPT !.TopicSet = taken]
    ELSE m

\* User.updateAvatar: url is info.Avatar, 0 when there is no info; the
\* fields and whether they were changed
updateAvatar(m, url, reuploadOk) ==
    IF url = 0 \/ url = m.Avatar THEN [m |-> m, changed |-> FALSE]
    ELSE IF ~reuploadOk THEN [m |-> m, changed |-> FALSE]
    ELSE [m |-> [m EXCEPT !.Avatar = url, !.AvatarSet = FALSE], changed |-> TRUE]

\* UpdateAvatar
UpdateAvatarOf(m, url, reuploadOk, pushOk) ==
    LET u == updateAvatar(m, url, reuploadOk)
    IN IF ~u.changed THEN u.m
       ELSE IF u.m.hasRoom
       THEN [Push(u.m, "avatar", u.m.Avatar, pushOk) EXCEPT !.AvatarSet = pushOk]
       ELSE u.m

\* the callers: UpdateMatrixRoom returns at once without a room, and
\* UpdateMetadata at once for a private chat
UpdateName(newName, pushOk) ==
    /\ meta.hasRoom /\ ~meta.private
    /\ meta' = UpdateNameOf([meta EXCEPT !.attempted = "none"], newName, pushOk)
    /\ UNCHANGED otherThanMetadata

\* UpdateMetadata, and handleWechatEvent on a notice in a portal with a room
UpdateTopic(newTopic, pushOk) ==
    /\ meta.hasRoom
    /\ meta' = UpdateTopicOf([meta EXCEPT !.attempted = "none"], newTopic, pushOk)
    /\ UNCHANGED otherThanMetadata

\* UpdateMatrixRoom of a group
UpdateAvatar(url, reuploadOk, pushOk) ==
    /\ meta.hasRoom /\ ~meta.private
    /\ meta' = UpdateAvatarOf([meta EXCEPT !.attempted = "none"], url,
                              reuploadOk, pushOk)
    /\ UNCHANGED otherThanMetadata

\* CreateMatrixRoom: a private chat takes the name and avatar of the puppet
\* and PrivateChatTopic, a group the name of its info and UpdateAvatar; the
\* avatar is part of the initial state and AvatarSet is set before
\* intent.CreateRoom, NameSet and TopicSet after it
CreateRoomWithMetadata(newName, url, reuploadOk, createOk) ==
    /\ ~meta.hasRoom
    /\ LET m0 == [meta EXCEPT !.attempted = "create"]
           m1 == IF meta.private
                 THEN [m0 EXCEPT !.Name = newName, !.Avatar = url,
                                 !.Topic = PrivateChatTopic]
                 ELSE UpdateAvatarOf([m0 EXCEPT !.Name = newName], url,
                                     reuploadOk, FALSE)
           m2 == [m1 EXCEPT !.AvatarSet = m1.Avatar # 0 /\ shouldSetDMRoomMetadata(m1)]
       IN meta' =
              IF ~createOk THEN m2
              ELSE [m2 EXCEPT !.hasRoom = TRUE,
                              !.NameSet = m2.Name # 0,
                              !.TopicSet = m2.Topic # 0,
                              !.room = [name |-> IF shouldSetDMRoomMetadata(m2)
                                                 THEN m2.Name ELSE 0,
                                        topic |-> m2.Topic,
                                        avatar |-> IF m2.AvatarSet THEN m2.Avatar
                                                   ELSE 0],
                              !.failed = {}]
    /\ UNCHANGED otherThanMetadata

\* a private chat of a bridge that does not set the metadata of private chats
MetaInit == meta = NewMeta(TRUE, FALSE)

(***************************************************************************)
(* handleMessageLoop's select over the two channels, with senders that     *)
(* never stop.  The items of a channel are numbered in a cycle longer than *)
(* the channel's buffer, so the items in a channel differ.                 *)
(***************************************************************************)

\* the number of the item after item n
NextItem(n) == (n % (PortalMessageBuffer + 1)) + 1

\* a select that takes p.matrixMessages only when p.messages is empty
SelectWithPriority(remoteReady, hubReady) ==
    IF remoteReady THEN {"messages"}
    ELSE IF hubReady THEN {"matrixMessages"}
    ELSE {}

\* select { case msg := <-p.messages: .. case msg := <-p.matrixMessages: .. }:
\* the cases that can proceed, of which select takes one by a uniform
\* pseudo-random choice
Select(remoteReady, hubReady) ==
    (IF remoteReady THEN {"messages"} ELSE {})
        \cup (IF hubReady THEN {"matrixMessages"} ELSE {})

\* portal.messages <- PortalMessage{..}, by a sender that finds room
SendToMessages ==
    /\ Len(messages) < PortalMessageBuffer
    /\ messages' = Enqueue(messages, NextItem(nread))
    /\ nread' = NextItem(nread)
    /\ UNCHANGED <<spawned, processedLog, nsubmitted, matrixMessages, remoteLog>>
    /\ UNCHANGED otherThanLoop

\* p.matrixMessages <- PortalMatrixMessage{..}
SendToMatrixMessages(type) ==
    /\ Len(matrixMessages) < PortalMessageBuffer
    /\ matrixMessages' =
           Enqueue(matrixMessages, [n |-> NextItem(nsubmitted), type |-> type])
    /\ nsubmitted' = NextItem(nsubmitted)
    /\ UNCHANGED <<nread, spawned, messages, processedLog, remoteLog>>
    /\ UNCHANGED otherThanLoop

\* the loop's round that takes the case of p.messages
SelectMessages ==
    /\ "messages" \in Select(messages # <<>>, matrixMessages # <<>>)
    /\ messages' = Tail(messages)
    /\ UNCHANGED <<nread, spawned, processedLog, nsubmitted, matrixMessages, remoteLog>>
    /\ UNCHANGED otherThanLoop

\* the loop's round that takes the case of p.matrixMessages
SelectMatrixMessages ==
    /\ "matrixMessages" \in Select(messages # <<>>, matrixMessages # <<>>)
    /\ matrixMessages' = Tail(matrixMessages)
    /\ UNCHANGED <<nread, spawned, messages, processedLog, nsubmitted, remoteLog>>
    /\ UNCHANGED otherThanLoop

(***************************************************************************)
(* The locks of the bridge and of the service, and the tasks that take     *)
(* them.  A sync.Mutex has a writer only; a sync.RWMutex has readers too.  *)
(***************************************************************************)

Tasks == 1..NumTasks

LockNames ==
    {"usersLock", "connLock", "requestsLock", "clientsLock", "portalsLock",
     "roomCreateLock", "syncLock"}

NoHolder == [w |-> 0, r |-> {}]

\* Lock() returns when the lock has no holder, RLock() when it has no writer
CanLock(l) == held[l] = NoHolder

CanRLock(l) == held[l].w = 0

Lock(h, l, t) == [h EXCEPT ![l].w = t]

Unlock(h, l) == [h EXCEPT ![l].w = 0]

RLock(h, l, t) == [h EXCEPT ![l].r = @ \cup {t}]

RUnlock(h, l, t) == [h EXCEPT ![l].r = @ \ {t}]

\* the locks task t holds
HeldBy(t) == {l \in LockNames : held[l].w = t \/ t \in held[l].r}

Idle == [op |-> "none", step |-> "idle", todo |-> 0]

\* task t goes to a step of an operation
Goto(t, op, step, todo) ==
    at' = [at EXCEPT ![t] = [op |-> op, step |-> step, todo |-> todo]]

At(t, op, step) == at[t].op = op /\ at[t].step = step

LocksInit ==
    /\ held = [l \in LockNames |-> NoHolder]
    /\ clients = {}
    /\ at = [t \in Tasks |-> Idle]

(***************************************************************************)
(* WechatBridge.Stop and WechatService.Stop, beside a request and a lookup *)
(* of a user by other tasks.                                               *)
(***************************************************************************)

\* the steps at which a task waits for the network or for the agent:
\* conn.WriteJSON, the select on respChan and ctx.Done(), Conn.close, and
\* server.Shutdown
WaitingSteps == {"sendMessage", "await", "close", "Shutdown"}

\* br.usersLock.Lock(), before the loop over br.usersByUsername; n users
\* have a Client
StopLockUsers(t, n) ==
    /\ at[t] = Idle
    /\ \A u \in Tasks : at[u].op # "Stop"
    /\ CanLock("usersLock")
    /\ held' = Lock(held, "usersLock", t)
    /\ Goto(t, "Stop", "users", n)
    /\ UNCHANGED <<clients, otherThanLocks>>

\* user.DeleteConnection(): u.Client.Disconnect(), which is a request
StopDeleteConnection(t) ==
    /\ At(t, "Stop", "users")
    /\ at[t].todo > 0
    /\ Goto(t, "Stop", "addResponseWaiter", at[t].todo)
    /\ UNCHANGED held
    /\ UNCHANGED <<clients, otherThanLocks>>

\* a request of a task that is not stopping the bridge
Request(t) ==
    /\ at[t] = Idle
    /\ Goto(t, "request", "addResponseWaiter", 0)
    /\ UNCHANGED held
    /\ UNCHANGED <<clients, otherThanLocks>>

\* addResponseWaiter: ws.requestsLock.Lock()
AddResponseWaiterLock(t) ==
    /\ at[t].step = "addResponseWaiter"
    /\ CanLock("requestsLock")
    /\ held' = Lock(held, "requestsLock", t)
    /\ Goto(t, at[t].op, "adding", at[t].todo)
    /\ UNCHANGED <<clients, otherThanLocks>>

\* ws.requests[reqID] = waiter; ws.requestsLock.Unlock()
AddResponseWaiterUnlock(t) ==
    /\ at[t].step = "adding"
    /\ held' = Unlock(held, "requestsLock")
    /\ Goto(t, at[t].op, "getConn", at[t].todo)
    /\ UNCHANGED <<clients, otherThanLocks>>

\* getConn: ws.connLock.RLock()
GetConnRLock(t) ==
    /\ at[t].step = "getConn"
    /\ CanRLock("connLock")
    /\ held' = RLock(held, "connLock", t)
    /\ Goto(t, at[t].op, "reading", at[t].todo)
    /\ UNCHANGED <<clients, otherThanLocks>>

\* the read of ws.conns and the deferred ws.connLock.RUnlock()
GetConnRUnlock(t) ==
    /\ at[t].step = "reading"
    /\ held' = RUnlock(held, "connLock", t)
    /\ Goto(t, at[t].op, "sendMessage", at[t].todo)
    /\ UNCHANGED <<clients, otherThanLocks>>

\* conn.sendMessage(msg) has written the frame
SendMessageDone(t) ==
    /\ at[t].step = "sendMessage"
    /\ Goto(t, at[t].op, "await", at[t].todo)
    /\ UNCHANGED held
    /\ UNCHANGED <<clients, otherThanLocks>>

\* the response has come or the deadline has passed
AwaitDone(t) ==
    /\ at[t].step = "await"
    /\ Goto(t, at[t].op, "removeResponseWaiter", at[t].todo)
    /\ UNCHANGED held
    /\ UNCHANGED <<clients, otherThanLocks>>

\* removeResponseWaiter: ws.requestsLock.Lock()
RemoveResponseWaiterLock(t) ==
    /\ at[t].step = "removeResponseWaiter"
    /\ CanLock("requestsLock")
    /\ held' = Lock(held, "requestsLock", t)
    /\ Goto(t, at[t].op, "removing", at[t].todo)
    /\ UNCHANGED <<clients, otherThanLocks>>

\* delete(ws.requests, reqID); ws.requestsLock.Unlock(); request returns,
\* in Stop to the loop over the users
RemoveResponseWaiterUnlock(t) ==
    /\ at[t].step = "removing"
    /\ held' = Unlock(held, "requestsLock")
    /\ IF at[t].op = "Stop"
       THEN Goto(t, "Stop", "users", at[t].todo - 1)
       ELSE at' = [at EXCEPT ![t] = Idle]
    /\ UNCHANGED <<clients, otherThanLocks>>

\* br.usersLock.Unlock() after the loop; br.WechatService.Stop()
StopUnlockUsers(t) ==
    /\ At(t, "Stop", "users")
    /\ at[t].todo = 0
    /\ held' = Unlock(held, "usersLock")
    /\ Goto(t, "Stop", "WechatService.Stop", 0)
    /\ UNCHANGED <<clients, otherThanLocks>>

\* WechatService.Stop: ws.connLock.Lock(), its Unlock deferred; ws.conns
\* has n connections
ServiceStopLock(t, n) ==
    /\ At(t, "Stop", "WechatService.Stop")
    /\ CanLock("connLock")
    /\ held' = Lock(held, "connLock", t)
    /\ Goto(t, "Stop", "conns", n)
    /\ UNCHANGED <<clients, otherThanLocks>>

\* conn.close(): the close frame is written and the connection closed
ConnClose(t) ==
    /\ At(t, "Stop", "conns")
    /\ at[t].todo > 0
    /\ Goto(t, "Stop", "close", at[t].todo)
    /\ UNCHANGED held
    /\ UNCHANGED <<clients, otherThanLocks>>

ConnCloseDone(t) ==
    /\ At(t, "Stop", "close")
    /\ Goto(t, "Stop", "conns", at[t].todo - 1)
    /\ UNCHANGED held
    /\ UNCHANGED <<clients, otherThanLocks>>

\* ws.server.Shutdown(ctx), after the loop over ws.conns
Shutdown(t) ==
    /\ At(t, "Stop", "conns")
    /\ at[t].todo = 0
    /\ Goto(t, "Stop", "Shutdown", 0)
    /\ UNCHANGED held
    /\ UNCHANGED <<clients, otherThanLocks>>

\* Shutdown has returned; the deferred ws.connLock.Unlock()
ServiceStopReturn(t) ==
    /\ At(t, "Stop", "Shutdown")
    /\ held' = Unlock(held, "connLock")
    /\ Goto(t, "Stop", "stopped", 0)
    /\ UNCHANGED <<clients, otherThanLocks>>

\* GetUserByUID: br.usersLock.Lock()
LookupLock(t) ==
    /\ at[t] = Idle
    /\ CanLock("usersLock")
    /\ held' = Lock(held, "usersLock", t)
    /\ Goto(t, "GetUserByUID", "lookup", 0)
    /\ UNCHANGED <<clients, otherThanLocks>>

\* the read of br.usersByUID and the deferred br.usersLock.Unlock()
LookupUnlock(t) ==
    /\ At(t, "GetUserByUID", "lookup")
    /\ held' = Unlock(held, "usersLock")
    /\ at' = [at EXCEPT ![t] = Idle]
    /\ UNCHANGED <<clients, otherThanLocks>>

(***************************************************************************)
(* The client registry of the service of wechatservice.go: the read loop   *)
(* of ServeHTTP looks the receiver of an event up, and CreateClient and    *)
(* RemoveClient write the registry.                                        *)
(***************************************************************************)

\* a read lock that no task will release is held by 0
Leaked == 0

\* a task waits in ws.clientsLock.Lock(); RLock() waits behind it
WriterWaits == \E u \in Tasks : at[u].step = "Lock"

\* the read loop has read an event frame for mxid: ws.clientsLock.RLock()
EventRLock(t, mxid) ==
    /\ at[t] = Idle
    /\ CanRLock("clientsLock")
    /\ ~WriterWaits
    /\ held' = RLock(held, "clientsLock", t)
    /\ Goto(t, "ServeHTTP", "lookup", mxid)
    /\ UNCHANGED <<clients, otherThanLocks>>

\* client, ok := ws.clients[msg.MXID]; with !ok the loop continues, and the
\* RUnlock below is not reached; else go client.HandleEvent(&msg) and
\* ws.clientsLock.RUnlock()
EventLookup(t) ==
    /\ At(t, "ServeHTTP", "lookup")
    /\ held' = IF at[t].todo \in clients
               THEN RUnlock(held, "clientsLock", t)
               ELSE RLock(RUnlock(held, "clientsLock", t), "clientsLock", Leaked)
    /\ at' = [at EXCEPT ![t] = Idle]
    /\ UNCHANGED <<clients, otherThanLocks>>

\* CreateClient or RemoveClient is called: ws.clientsLock.Lock() is reached
ClientsCall(t, op, mxid) ==
    /\ at[t] = Idle
    /\ Goto(t, op, "Lock", mxid)
    /\ UNCHANGED <<held, clients, otherThanLocks>>

\* ws.clientsLock.Lock() returns
ClientsLock(t) ==
    /\ at[t].step = "Lock"
    /\ CanLock("clientsLock")
    /\ held' = Lock(held, "clientsLock", t)
    /\ Goto(t, at[t].op, "locked", at[t].todo)
    /\ UNCHANGED <<clients, otherThanLocks>>

\* ws.clients[mxid] = client, or delete(ws.clients, mxid), and the deferred
\* ws.clientsLock.Unlock()
ClientsWrite(t) ==
    /\ at[t].step = "locked"
    /\ clients' = IF at[t].op = "CreateClient"
                  THEN clients \cup {at[t].todo}
                  ELSE clients \ {at[t].todo}
    /\ held' = Unlock(held, "clientsLock")
    /\ at' = [at EXCEPT ![t] = Idle]
    /\ UNCHANGED otherThanLocks

(***************************************************************************)
(* The User objects: NewUser makes an object and starts its resync loop;   *)
(* br.usersByMXID and br.usersByUsername lead to objects (0: no entry);    *)
(* the user table has a row per hub user ID with the user's UID.           *)
(***************************************************************************)

\* NewWechatBridge: no object, empty maps; the table is what it was
NewWechatBridge(db) ==
    [objs |-> <<>>,
     usersByMXID |-> [mxid \in BridgeUsers |-> 0],
     usersByUsername |-> [uin \in Accounts |-> 0],
     db |-> db]

\* loadDBUser with a row: br.NewUser(dbUser), which starts the object's
\* puppetResyncLoop, and br.usersByMXID[user.MXID] = user
loadDBUser(reg, mxid, uin) ==
    [reg EXCEPT !.objs = Append(@, [MXID |-> mxid, UID |-> uin]),
                !.usersByMXID[mxid] = Len(reg.objs) + 1]

\* getUserByMXID when br.usersByMXID has no entry (with an entry the object
\* is returned): the row of the ID is loaded; without a row an object is
\* made and its row inserted, unless onlyIfExists
GetUserByMXID(mxid, onlyIfExists) ==
    /\ userRegistry.usersByMXID[mxid] = 0
    /\ Len(userRegistry.objs) < MaxUserObjs
    /\ userRegistry.db[mxid] = NoRow => ~onlyIfExists
    /\ userRegistry' =
           IF userRegistry.db[mxid] = NoRow
           THEN loadDBUser([userRegistry EXCEPT !.db[mxid] = EmptyUID], mxid, EmptyUID)
           ELSE loadDBUser(userRegistry, mxid, userRegistry.db[mxid])
    /\ UNCHANGED otherThanUserObjects

\* GetUserByUID when br.usersByUsername has no entry (with an entry the
\* object is returned): loadDBUser(br.DB.User.GetByUin(uid.Uin), nil), for
\* the row mxid that has this UID
GetUserByUID(uin, mxid) ==
    /\ userRegistry.usersByUsername[uin] = 0
    /\ userRegistry.db[mxid] = uin
    /\ Len(userRegistry.objs) < MaxUserObjs
    /\ userRegistry' = loadDBUser(userRegistry, mxid, uin)
    /\ UNCHANGED otherThanUserObjects

\* MarkLogin of the user that ran the login command, which the command
\* processor got from GetUserByMXID: u.UID, addToUIDMap, u.Update
MarkLogin(mxid, uin) ==
    /\ userRegistry.usersByMXID[mxid] # 0
    /\ userRegistry' =
           [userRegistry EXCEPT
               !.objs[userRegistry.usersByMXID[mxid]].UID = uin,
               !.usersByUsername[uin] = userRegistry.usersByMXID[mxid],
               !.db[mxid] = uin]
    /\ UNCHANGED otherThanUserObjects

\* fnLogout of the user that ran the command: removeFromUIDMap and
\* DeleteSession
Logout(mxid) ==
    /\ userRegistry.usersByMXID[mxid] # 0
    /\ userRegistry.objs[userRegistry.usersByMXID[mxid]].UID # EmptyUID
    /\ LET o == userRegistry.usersByMXID[mxid]
           uin == userRegistry.objs[o].UID
       IN userRegistry' =
              [userRegistry EXCEPT
                  !.usersByUsername[uin] = IF @ = o THEN 0 ELSE @,
                  !.objs[o].UID = EmptyUID,
                  !.db[mxid] = EmptyUID]
    /\ UNCHANGED otherThanUserObjects

\* the bridge process starts again
RestartBridge ==
    /\ userRegistry.objs # <<>>
    /\ userRegistry' = NewWechatBridge(userRegistry.db)
    /\ UNCHANGED otherThanUserObjects

UserObjectsInit ==
    userRegistry = NewWechatBridge([mxid \in BridgeUsers |-> NoRow])

(***************************************************************************)
(* The room-create lock of a portal, the sync lock of its puppet and the   *)
(* lock of the portal registry, in CreateMatrixRoom of a private chat      *)
(* (steps "c."), Puppet.Sync ("s.") and Puppet.updatePortalMeta ("m.").    *)
(* A task whose step is the Lock() of a lock waits for this lock.          *)
(***************************************************************************)

\* a Puppet.UpdateName that calls p.updatePortalName() itself
InGoroutineNever(call) == FALSE

\* go p.updatePortalName(), go p.updatePortalAvatar(): the caller goes on,
\* and updatePortalMeta runs in a goroutine of its own
InGoroutine(call) == call \in {"updatePortalName", "updatePortalAvatar"}

\* the lock whose Lock() the step is
LockWanted(step) ==
    CASE step \in {"c.roomCreateLock", "m.roomCreateLock"} -> "roomCreateLock"
      [] step = "s.syncLock" -> "syncLock"
      [] step \in {"c.portalsLock", "m.portalsLock"} -> "portalsLock"
      [] OTHER -> "none"

\* the step after the Lock() has returned
AfterLock(step) ==
    CASE step = "c.roomCreateLock" -> "c.SyncContact"
      [] step = "s.syncLock" -> "s.UpdateName"
      [] step = "c.portalsLock" -> "c.register"
      [] step = "m.portalsLock" -> "m.dbPortalsToPortals"
      [] step = "m.roomCreateLock" -> "m.meta"
      [] OTHER -> step

\* a task calls CreateMatrixRoom for the portal without a room, or Puppet.Sync
\* (a resync), or is the goroutine that an UpdateName or UpdateAvatar started
\* for updatePortalMeta
CallOperation(t, op) ==
    /\ at[t] = Idle
    /\ Goto(t, op,
            CASE op = "CreateMatrixRoom" -> "c.roomCreateLock"
              [] op = "Sync" -> "s.syncLock"
              [] OTHER -> "m.portalsLock", 0)
    /\ UNCHANGED <<held, clients, otherThanLocks>>

\* the Lock() the task waits in returns
AcquireLock(t) ==
    /\ LockWanted(at[t].step) # "none"
    /\ CanLock(LockWanted(at[t].step))
    /\ held' = Lock(held, LockWanted(at[t].step), t)
    /\ Goto(t, at[t].op, AfterLock(at[t].step), at[t].todo)
    /\ UNCHANGED <<clients, otherThanLocks>>

\* CreateMatrixRoom, under roomCreateLock: puppet.SyncContact(..), which
\* calls p.Sync: p.syncLock.Lock()
SyncContact(t) ==
    /\ at[t].step = "c.SyncContact"
    /\ Goto(t, at[t].op, "s.syncLock", 0)
    /\ UNCHANGED <<held, clients, otherThanLocks>>

\* Sync, under syncLock: p.UpdateName(..), which starts updatePortalName.
\* todo = 1: updatePortalMeta runs inside the caller
PuppetUpdateName(t) ==
    /\ at[t].step = "s.UpdateName"
    /\ IF InGoroutine("updatePortalName")
       THEN Goto(t, at[t].op, "s.return", 0)
       ELSE Goto(t, at[t].op, "m.portalsLock", 1)
    /\ UNCHANGED <<held, clients, otherThanLocks>>

\* Sync returns: the deferred p.syncLock.Unlock(); CreateMatrixRoom goes on
\* to p.bridge.portalsLock.Lock()
SyncReturn(t) ==
    /\ at[t].step = "s.return"
    /\ held' = Unlock(held, "syncLock")
    /\ IF at[t].op = "CreateMatrixRoom"
       THEN Goto(t, at[t].op, "c.portalsLock", 0)
       ELSE at' = [at EXCEPT ![t] = Idle]
    /\ UNCHANGED <<clients, otherThanLocks>>

\* p.bridge.portalsByMXID[p.MXID] = p; p.bridge.portalsLock.Unlock()
RegisterRoom(t) ==
    /\ at[t].step = "c.register"
    /\ held' = Unlock(held, "portalsLock")
    /\ Goto(t, at[t].op, "c.return", 0)
    /\ UNCHANGED <<clients, otherThanLocks>>

\* CreateMatrixRoom returns: the deferred p.roomCreateLock.Unlock()
CreateMatrixRoomReturn(t) ==
    /\ at[t].step = "c.return"
    /\ held' = Unlock(held, "roomCreateLock")
    /\ at' = [at EXCEPT ![t] = Idle]
    /\ UNCHANGED <<clients, otherThanLocks>>

\* updatePortalMeta: GetAllPortalsByUID returns from dbPortalsToPortals, the
\* deferred br.portalsLock.Unlock(); then portal.roomCreateLock.Lock()
GetAllPortalsReturn(t) ==
    /\ at[t].step = "m.dbPortalsToPortals"
    /\ held' = Unlock(held, "portalsLock")
    /\ Goto(t, at[t].op, "m.roomCreateLock", at[t].todo)
    /\ UNCHANGED <<clients, otherThanLocks>>

\* meta(portal); portal.roomCreateLock.Unlock()
PortalMeta(t) ==
    /\ at[t].step = "m.meta"
    /\ held' = Unlock(held, "roomCreateLock")
    /\ IF at[t].todo = 1
       THEN Goto(t, at[t].op, "s.return", 0)
       ELSE at' = [at EXCEPT ![t] = Idle]
    /\ UNCHANGED <<clients, otherThanLocks>>

\* no trigger has started
RoomInit ==
    /\ roomCreateLock = 0
    /\ tpc = [t \in Triggers |-> "idle"]
    /\ observed = [t \in Triggers |-> 0]

\* newBlankPortal: both channels are empty
LoopInit ==
    /\ nread = 0
    /\ spawned = {}
    /\ messages = <<>>
    /\ processedLog = <<>>
    /\ nsubmitted = 0
    /\ matrixMessages = <<>>
    /\ remoteLog = <<>>

\* NewWechatService
TransportInit ==
    /\ requestID = 0
    /\ requests = [i \in IDs |-> 0]
    /\ chans = [i \in IDs |-> NewChan]
    /\ conns = {}
    /\ connState = [k \in ConnKeys |-> "none"]
    /\ pc = [c \in Callers |-> "idle"]
    /\ rid = [c \in Callers |-> 0]
    /\ cconn = [c \in Callers |-> 0]
    /\ expired = [c \in Callers |-> FALSE]
    /\ outcome = [c \in Callers |-> "none"]
    /\ got = [c \in Callers |-> 0]
    /\ rpc = [k \in ConnKeys |-> "off"]
    /\ rframe = [k \in ConnKeys |-> 0]
    /\ rchan = [k \in ConnKeys |-> 0]
    /\ panics = {}
    /\ allocLog = <<>>
    /\ returns = [i \in IDs |-> <<>>]

\* a portal without a room and without records
PortalInit ==
    /\ MXID = 0
    /\ roomsCreated = 0
    /\ store = [key \in MsgKeys |-> NoMsg]
    /\ hub = {}
    /\ nextEventID = 1
    /\ redactRequests = {}
    /\ redacted = {}
    /\ recentlyHandled = [i \in {} |-> <<"", 0>>]
    /\ recentlyHandledIndex = 0
    /\ topic = 0
    /\ deliveries = [e \in AllEvents |-> 0]
    /\ revokedAfterBridge = {}
    /\ revokeAccepted = {}
    /\ nHandled = 0

\* NewWechatService of wechatservice.go
WebsocketInit ==
    /\ wsConn = 0
    /\ websocketRequests = [i \in ReqIDs |-> 0]
    /\ wsRequestID = 0
    /\ respChans = [i \in ReqIDs |-> <<>>]
    /\ sockState = [k \in Sockets |-> "none"]
    /\ wpc = [c \in WsCallers |-> "idle"]
    /\ ReqID = [c \in WsCallers |-> 0]
    /\ sendConn = [c \in WsCallers |-> 0]
    /\ reqResult = [c \in WsCallers |-> "none"]
    /\ reqResp = [c \in WsCallers |-> <<0, 0>>]

\* a bridge that has loaded no portal, and an empty portal table
RegistryInit ==
    /\ portalsByUID = [key \in PortalKeys |-> 0]
    /\ portalsByMXID = [mxid \in RoomIDs |-> 0]
    /\ portals = <<>>
    /\ dbPortals = [key \in PortalKeys |-> NoRow]
    /\ roomsMade = 0

Init ==
    /\ TransportInit
    /\ AllowRedaction = FALSE
    /\ PortalInit
    /\ RoomInit
    /\ LoopInit
    /\ WebsocketInit
    /\ RegistryInit
    /\ rows = {}
    /\ OutboundInit
    /\ UsersInit
    /\ PuppetsInit
    /\ ConsumerInit
    /\ MetaInit
    /\ LocksInit
    /\ UserObjectsInit

NextTransport ==
    \/ \E c \in Callers : CallerStep(c)
    \/ \E c \in Callers : TimerFire(c)
    \/ \E k \in ConnKeys : Accept(k)
    \/ \E k \in ConnKeys, i \in 1..requestID : ReadResponse(k, i)
    \/ \E k \in ConnKeys : ReadError(k)
    \/ \E k \in ConnKeys : Send(k)

SpecTransport == Init /\ [][NextTransport]_vars

InitPortal ==
    /\ TransportInit
    /\ AllowRedaction \in BOOLEAN
    /\ PortalInit
    /\ RoomInit
    /\ LoopInit
    /\ WebsocketInit
    /\ RegistryInit
    /\ rows = {}
    /\ OutboundInit
    /\ UsersInit
    /\ PuppetsInit
    /\ ConsumerInit
    /\ MetaInit
    /\ LocksInit
    /\ UserObjectsInit

\* the results of the calls that the item does not make are not drawn
NextPortal ==
    \E e \in Events, intent \in Intents, ok \in BOOLEAN :
        \E roomOk \in (IF MXID = 0 THEN BOOLEAN ELSE {TRUE}),
           redact \in (IF e.type = "revoke" /\ AllowRedaction
                         THEN RedactResults ELSE {"ok"}) :
            handleWechatMessageLoopItem(e, roomOk, intent, ok, redact, "ok")

SpecPortal == InitPortal /\ [][NextPortal]_vars

\* the items are media and text events
NextMedia ==
    \E e \in MediaEvents \cup {ev \in Events : ev.type = "text"},
       intent \in Intents, ok \in BOOLEAN :
        \E roomOk \in (IF MXID = 0 THEN BOOLEAN ELSE {TRUE}),
           upload \in (IF e.type = "media" THEN UploadResults ELSE {"ok"}) :
            handleWechatMessageLoopItem(e, roomOk, intent, ok, "ok", upload)

SpecMedia == Init /\ [][NextMedia]_vars

NextRoom ==
    \/ \E t \in Triggers : TriggerCheck(t)
    \/ \E t \in Triggers : CreateMatrixRoomCheck(t)
    \/ \E t \in Triggers : RoomCreateLock(t)
    \/ \E t \in Triggers, ok \in BOOLEAN : CreateRoom(t, ok)
    \/ \E t \in Triggers : RoomCreateUnlock(t)

SpecRoom == Init /\ [][NextRoom]_vars

NextLoop ==
    \/ \E known \in BOOLEAN : ReadEvent(known)
    \/ \E n \in 1..MaxRemoteEvents : processEvent(n)
    \/ \E type \in HubEventTypes, permitted \in BOOLEAN :
           ReceiveMatrixEvent(type, permitted)
    \/ LoopMessages
    \/ \E result \in MatrixOutcomes : LoopMatrixMessages(result)

SpecLoop == Init /\ [][NextLoop]_vars

NextWebsocket ==
    \/ \E k \in Sockets : WsAccept(k)
    \/ \E k \in Sockets : WsReadError(k)
    \/ \E k \in Sockets, i \in 1..wsRequestID : WsReadResponse(k, i)
    \/ \E c \in WsCallers : WsStart(c)
    \/ \E c \in WsCallers, ok \in BOOLEAN : SendWebsocket(c, ok)
    \/ \E c \in WsCallers : WsSelectRecv(c)
    \/ \E c \in WsCallers : WsSelectTimeout(c)
    \/ \E c \in WsCallers : removeWebsocketResponseWaiter(c)

SpecWebsocket == Init /\ [][NextWebsocket]_vars

\* the lookups, and the callers that make a room with CreateMatrixRoom or
\* delete the portal
NextLookups ==
    \/ \E key \in PortalKeys : GetPortalByUID(key)
    \/ \E mxid \in RoomIDs : GetPortalByMXID(mxid)
    \/ \E key \in PortalKeys : CreateMatrixRoom(key)
    \/ \E p \in 1..MaxPortals : UpdatePortal(p)
    \/ \E p \in 1..MaxPortals : DeletePortal(p)

NextRegistry ==
    \/ NextLookups
    \/ \E key \in PortalKeys, invited \in BOOLEAN : CreatePrivatePortal(key, invited)
    \/ \E key \in PortalKeys, roomOk \in BOOLEAN : StartPM(key, roomOk)

SpecRegistry == Init /\ [][NextRegistry]_vars

\* the registry without the invites of CreatePrivatePortal
SpecLookups == Init /\ [][NextLookups]_vars

\* a portal that has its room, and an empty message table
InitStore ==
    /\ TransportInit
    /\ AllowRedaction = FALSE
    /\ MXID = 1
    /\ roomsCreated = 1
    /\ store = [key \in MsgKeys |-> NoMsg]
    /\ hub = {}
    /\ nextEventID = 1
    /\ redactRequests = {}
    /\ redacted = {}
    /\ recentlyHandled = [i \in {} |-> <<"", 0>>]
    /\ recentlyHandledIndex = 0
    /\ topic = 0
    /\ deliveries = [e \in AllEvents |-> 0]
    /\ revokedAfterBridge = {}
    /\ revokeAccepted = {}
    /\ nHandled = 0
    /\ RoomInit
    /\ LoopInit
    /\ WebsocketInit
    /\ RegistryInit
    /\ rows = {}
    /\ OutboundInit
    /\ UsersInit
    /\ PuppetsInit
    /\ ConsumerInit
    /\ MetaInit
    /\ LocksInit
    /\ UserObjectsInit

\* the remote-origin events of the portal
NextInbound ==
    \E e \in Events, intent \in Intents, ok \in BOOLEAN :
        handleWechatEvent(e, intent, ok)

SpecInbound == InitStore /\ [][NextInbound]_vars

\* the hub-origin messages of the portal; what canBridgeFrom does not read
\* and the results of the calls that are not made are not drawn
NextOutbound ==
    \E ts \in Timestamps, loggedIn \in BOOLEAN, content \in ContentTypes :
        \E private \in (IF loggedIn THEN BOOLEAN ELSE {FALSE}) :
          \E isReceiver \in (IF private THEN BOOLEAN ELSE {FALSE}) :
            \E send \in (IF canBridgeFrom(loggedIn, private, isReceiver) = "nil"
                              /\ Converts(content)
                          THEN SendResults ELSE {"ok"}) :
             \E ok \in (IF canBridgeFrom(loggedIn, private, isReceiver) = "nil"
                            /\ ~(Converts(content) /\ send = "ok")
                        THEN BOOLEAN ELSE {TRUE}) :
                HandleMatrixMessage(ts, loggedIn, private, isReceiver,
                                    content, send, ok)

SpecOutbound == InitStore /\ [][NextOutbound]_vars

NextStore ==
    \/ \E e \in Events, intent \in Intents, ok \in BOOLEAN :
           handleWechatEvent(e, intent, ok)
    \/ NextOutbound

SpecStore == InitStore /\ [][NextStore]_vars

NextUsersNoRestart ==
    \/ \E u \in BridgeUsers, account \in Accounts, selfOk \in BOOLEAN :
           fnLogin(u, account, selfOk)
    \/ \E u \in BridgeUsers : fnLogout(u)
    \/ \E u \in BridgeUsers : AgentLogout(u)

NextUsers ==
    \/ NextUsersNoRestart
    \/ Restart

SpecUsers == Init /\ [][NextUsers]_vars

NextSessions ==
    \/ \E uid \in PuppetUIDs : GetPuppetByUID(uid)
    \/ \E uid \in PuppetUIDs, mxid \in MXIDs \cup {0} :
           SwitchCustomMXID(uid, mxid, "ok")
    \/ \E uid \in PuppetUIDs, mxid \in MXIDs,
          whoami \in StartOutcomes \ {"ok"} : SwitchCustomMXID(uid, mxid, whoami)
    \/ \E i \in 1..MaxPuppets, whoami \in StartOutcomes : StartUsers(i, whoami)

NextPuppets ==
    \/ NextSessions
    \/ \E mxid \in MXIDs : GetPuppetByCustomMXID(mxid)

SpecPuppets == Init /\ [][NextPuppets]_vars

NextCustomPuppet ==
    \/ NextSessions
    \/ \E uid \in PuppetUIDs, mxid \in MXIDs, setupOk \in BOOLEAN :
           tryAutomaticDoublePuppeting(uid, mxid, setupOk)

SpecCustomPuppet == Init /\ [][NextCustomPuppet]_vars

handleMessageLoop ==
    \/ \E panicked \in BOOLEAN : TakeMessage(panicked)
    \/ \E panicked \in BOOLEAN : TakeMatrixMessage(panicked)

NextConsumer ==
    \/ \E known \in BOOLEAN : ReadEvent(known)
    \/ \E n \in 1..MaxRemoteEvents : processEvent(n)
    \/ \E type \in HubEventTypes, permitted \in BOOLEAN :
           ReceiveMatrixEvent(type, permitted)
    \/ handleMessageLoop

\* the goroutine of the loop is scheduled as long as it can take an item
SpecConsumer == Init /\ [][NextConsumer]_vars /\ WF_vars(handleMessageLoop)

\* a portal of either kind, under either configuration
InitMetadata ==
    /\ TransportInit
    /\ AllowRedaction = FALSE
    /\ PortalInit
    /\ RoomInit
    /\ LoopInit
    /\ WebsocketInit
    /\ RegistryInit
    /\ rows = {}
    /\ OutboundInit
    /\ UsersInit
    /\ PuppetsInit
    /\ ConsumerInit
    /\ meta \in {NewMeta(private, always) : private \in BOOLEAN, always \in BOOLEAN}
    /\ LocksInit
    /\ UserObjectsInit

NextMetadata ==
    \/ \E newName \in Values, pushOk \in BOOLEAN : UpdateName(newName, pushOk)
    \/ \E newTopic \in Values, pushOk \in BOOLEAN : UpdateTopic(newTopic, pushOk)
    \/ \E url \in 0..NumValues, reuploadOk \in BOOLEAN, pushOk \in BOOLEAN :
           UpdateAvatar(url, reuploadOk, pushOk)
    \/ \E newName \in Values, url \in 0..NumValues, reuploadOk \in BOOLEAN,
          createOk \in BOOLEAN :
           CreateRoomWithMetadata(newName, url, reuploadOk, createOk)

SpecMetadata == InitMetadata /\ [][NextMetadata]_vars

NextSelect ==
    \/ SendToMessages
    \/ \E type \in HubEventTypes : SendToMatrixMessages(type)
    \/ SelectMessages
    \/ SelectMatrixMessages

\* the loop's goroutine is scheduled, and the choice of select among the
\* ready cases is uniform: a case that stays ready is taken
SpecSelect ==
    Init /\ [][NextSelect]_vars
         /\ WF_vars(SelectMessages) /\ WF_vars(SelectMatrixMessages)

NextStop ==
    \/ \E t \in Tasks, n \in 0..NumUsers : StopLockUsers(t, n)
    \/ \E t \in Tasks : StopDeleteConnection(t)
    \/ \E t \in Tasks : Request(t)
    \/ \E t \in Tasks : AddResponseWaiterLock(t)
    \/ \E t \in Tasks : AddResponseWaiterUnlock(t)
    \/ \E t \in Tasks : GetConnRLock(t)
    \/ \E t \in Tasks : GetConnRUnlock(t)
    \/ \E t \in Tasks : SendMessageDone(t)
    \/ \E t \in Tasks : AwaitDone(t)
    \/ \E t \in Tasks : RemoveResponseWaiterLock(t)
    \/ \E t \in Tasks : RemoveResponseWaiterUnlock(t)
    \/ \E t \in Tasks : StopUnlockUsers(t)
    \/ \E t \in Tasks, n \in 0..NumSockets : ServiceStopLock(t, n)
    \/ \E t \in Tasks : ConnClose(t)
    \/ \E t \in Tasks : ConnCloseDone(t)
    \/ \E t \in Tasks : Shutdown(t)
    \/ \E t \in Tasks : ServiceStopReturn(t)
    \/ \E t \in Tasks : LookupLock(t)
    \/ \E t \in Tasks : LookupUnlock(t)

SpecStop == Init /\ [][NextStop]_vars

NextClients ==
    \/ \E t \in Tasks, mxid \in BridgeUsers : EventRLock(t, mxid)
    \/ \E t \in Tasks : EventLookup(t)
    \/ \E t \in Tasks, op \in {"CreateClient", "RemoveClient"}, mxid \in BridgeUsers :
           ClientsCall(t, op, mxid)
    \/ \E t \in Tasks : ClientsLock(t)
    \/ \E t \in Tasks : ClientsWrite(t)

SpecClients == Init /\ [][NextClients]_vars

NextUserObjects ==
    \/ \E mxid \in BridgeUsers, onlyIfExists \in BOOLEAN :
           GetUserByMXID(mxid, onlyIfExists)
    \/ \E uin \in Accounts, mxid \in BridgeUsers : GetUserByUID(uin, mxid)
    \/ \E mxid \in BridgeUsers, uin \in Accounts : MarkLogin(mxid, uin)
    \/ \E mxid \in BridgeUsers : Logout(mxid)
    \/ RestartBridge

SpecUserObjects == Init /\ [][NextUserObjects]_vars

NextRing == \E id \in MsgIDs : markHandled(id)

SpecRing == Init /\ [][NextRing]_vars

NextLockOrder ==
    \/ \E t \in Tasks, op \in {"CreateMatrixRoom", "Sync", "updatePortalMeta"} :
           CallOperation(t, op)
    \/ \E t \in Tasks : AcquireLock(t)
    \/ \E t \in Tasks : SyncContact(t)
    \/ \E t \in Tasks : PuppetUpdateName(t)
    \/ \E t \in Tasks : SyncReturn(t)
    \/ \E t \in Tasks : RegisterRoom(t)
    \/ \E t \in Tasks : CreateMatrixRoomReturn(t)
    \/ \E t \in Tasks : GetAllPortalsReturn(t)
    \/ \E t \in Tasks : PortalMeta(t)

SpecLockOrder == Init /\ [][NextLockOrder]_vars

(***************************************************************************)
(* Properties of the transport.                                            *)
(***************************************************************************)

Outcomes == {"response", "timeout", "notconnected", "writeerror"}

Returned(c) == pc[c] = "done"

\* C3: whatever the number of concurrent requests and the order in which the
\* response frames arrive, a caller that receives a response receives a frame
\* whose ID is the ID allocated to its own request.
C3_ResponseMatchesRequest ==
    \A c \in Callers : outcome[c] = "response" => got[c] = rid[c]

\* C3 happens: two requests were outstanding together and the later one was
\* answered first
C3_Witness ==
    \E c, d \in Callers :
        /\ rid[c] < rid[d]
        /\ pc[c] = "select"
        /\ Returned(d) /\ outcome[d] = "response"

\* C4, as stated: once a request has taken the timeout branch, a response frame
\* that arrives with its ID is dropped without a panic in the reader.
C4_NoPanicAfterTimeout ==
    \A c \in Callers : outcome[c] = "timeout" => rid[c] \notin panics

\* C4, the part that holds: once request() has returned with a timeout its ID is
\* not in the waiter map
C4_TimedOutDeregistered ==
    \A c \in Callers :
        (Returned(c) /\ outcome[c] = "timeout") => requests[rid[c]] = 0

\* C4, the part that holds: a frame read after request() returned with a timeout
\* is dropped, and the drop changes no waiter, no channel and no reader
C4_LateFrameDropped ==
    [][\A k \in ConnKeys, i \in IDs :
          (ReadResponse(k, i) /\ returns[i] = <<"timeout">>)
              => UNCHANGED <<requests, chans, panics, rpc, connState>>]_vars

\* C8: after a call of request() has returned, by response, timeout, write error
\* or missing connection, the waiter map holds no entry for the call's ID.
C8_NoWaiterAfterReturn ==
    \A c \in Callers : Returned(c) => requests[rid[c]] = 0

\* C8 happens: one call has returned with a response and another with an error
C8_Witness ==
    \E c, d \in Callers :
        /\ Returned(c) /\ outcome[c] = "response"
        /\ Returned(d) /\ outcome[d] \in {"timeout", "writeerror", "notconnected"}

\* C9: the IDs are strictly increasing in allocation order, and no two requests
\* that are outstanding at the same time have the same ID.
C9_IDsIncreasingAndUnique ==
    /\ \A m, n \in 1..Len(allocLog) : m < n => allocLog[m] < allocLog[n]
    /\ \A c, d \in Callers : (c # d /\ Active(c) /\ Active(d)) => rid[c] # rid[d]

\* C9 happens: every caller has its ID and two requests are outstanding together
C9_Witness ==
    /\ Len(allocLog) = NumCallers
    /\ \E c, d \in Callers : c # d /\ pc[c] = "select" /\ pc[d] = "select"

\* each call returns once, and with one of the outcomes: the matching response,
\* a timeout error, or a connection error
ReturnsOnce ==
    /\ \A i \in IDs : Len(returns[i]) <= 1
    /\ \A c \in Callers :
          Returned(c) =>
              /\ returns[rid[c]] = <<outcome[c]>>
              /\ outcome[c] \in Outcomes
              /\ outcome[c] = "response" <=> got[c] # 0

C11_NotConnectedFailsAtOnce ==
    /\ [][\A c \in Callers :
            (Start(c) /\ conns = {})
                => (outcome'[c] = "notconnected" /\ pc'[c] = "remove")]_vars
    /\ [][\A c \in Callers :
            outcome[c] = "notconnected" => ~(WriteOk(c) \/ WriteBlock(c))]_vars
    /\ [](\A c \in Callers :
            outcome[c] = "notconnected"
                => /\ cconn[c] = 0
                   /\ ~Written(rid[c])
                   /\ ~expired[c]
                   /\ pc[c] = "remove" => ENABLED RemoveWaiter(c)
                   /\ pc[c] \in {"remove", "done"}
                   /\ Returned(c) => requests[rid[c]] = 0)

\* C11 happens: a request made after the only connection had ended has returned
\* with the not-connected error, while another request got its response
C11_Witness ==
    \E c, d \in Callers :
        /\ Returned(c) /\ outcome[c] = "notconnected"
        /\ \E k \in ConnKeys : connState[k] = "closed"
        /\ Returned(d) /\ outcome[d] = "response"

\* C13, as stated: the reader never blocks while delivering a response: a frame
\* whose waiter cannot take it at once, as a second response for an ID whose
\* caller has its response, is dropped and the reader goes on to the next
\* frame, and the caller still observes only the first response.
C13_SecondResponseDropped ==
    /\ [](\A k \in ConnKeys : rpc[k] = "send" => ENABLED Send(k))
    /\ [][\A k \in ConnKeys :
            (Send(k) /\ \E c \in Callers : rid[c] = rframe[k] /\ outcome[c] = "response")
                => (rpc'[k] = "read" /\ UNCHANGED <<got, outcome, connState>>)]_vars

\* C13, the part that holds: the reader's send never blocks, and a frame that
\* finds no waiter or a full channel changes no channel and no caller
C13_ReaderNeverBlocks ==
    /\ [](\A k \in ConnKeys : rpc[k] = "send" => ENABLED Send(k))
    /\ [][\A k \in ConnKeys :
            (Send(k) /\ ~chans[rchan[k]].closed /\ chans[rchan[k]].buf # <<>>)
                => (rpc'[k] = "read" /\ UNCHANGED <<chans, got, outcome, connState>>)]_vars
    /\ [][\A k \in ConnKeys, i \in IDs :
            (ReadResponse(k, i) /\ requests[i] = 0)
                => (rpc'[k] = "read" /\ UNCHANGED <<chans, got, outcome, connState>>)]_vars

(***************************************************************************)
(* Properties of the service with one current connection.                  *)
(***************************************************************************)

\* C12: accepting a new agent connection makes it the single current connection
\* in one step and leaves every registered in-flight waiter untouched; the later
\* end of the old connection's read loop does not clear the current connection,
\* and a response to an earlier request that arrives on the new connection is
\* still delivered to its caller.
C12_AcceptReplacesConnection ==
    /\ [][\A k \in Sockets :
            WsAccept(k) => (wsConn' = k /\ UNCHANGED <<websocketRequests, respChans>>)]_vars
    /\ [][\A k \in Sockets :
            (WsReadError(k) /\ wsConn # k) => wsConn' = wsConn]_vars
    /\ [][\A k \in Sockets, i \in ReqIDs :
            (WsReadResponse(k, i) /\ websocketRequests[i] # 0 /\ respChans[i] = <<>>)
                => respChans'[i] = <<<<i, k>>>>]_vars
    /\ [](wsConn # 0 => sockState[wsConn] = "open")
    /\ [](\A c \in WsCallers :
            reqResult[c] = "response" => reqResp[c][1] = ReqID[c])

\* C12 happens: a request was written to a websocket, a new one was accepted and
\* is current, the read loop of the old one has ended, and the caller has
\* returned with the response that came in on the new one
C12_Witness ==
    \E c \in WsCallers :
        /\ wpc[c] = "done" /\ reqResult[c] = "response"
        /\ sockState[sendConn[c]] = "closed"
        /\ reqResp[c][2] # sendConn[c]
        /\ wsConn = reqResp[c][2]

(***************************************************************************)
(* Properties of the portal's handlers.                                    *)
(***************************************************************************)

\* the hub messages sent for a message ID
HubMessages(key) == {h \in hub : h.key = key}

\* the message ID under which the handlers record an event
KeyOf(e) == IF e.type = "system" THEN FakeID(e.id) ELSE PlainID(e.id)

BridgedEvent(id) == GetByMsgID(store, PlainID(id)).mxid

TextBridged(e) ==
    /\ nextEventID' = nextEventID + 1
    /\ hub' = hub \cup {[ev |-> nextEventID, key |-> PlainID(e.id),
                         msgtype |-> "text", origin |-> "text"]}
    /\ store' = [store EXCEPT ![PlainID(e.id)] =
                                  [mxid |-> nextEventID, type |-> "normal"]]

TooLargeNotice(e, ev) ==
    [ev |-> ev, key |-> PlainID(e.id), msgtype |-> "notice",
     origin |-> "Failed to bridge media: homeserver rejected too large file"]

RegisteredPortals ==
    {portalsByUID[key] : key \in PortalKeys}
        \cup {portalsByMXID[mxid] : mxid \in RoomIDs}

\* C16, as stated: at any time at most one Portal object, and so at most one
\* running consumer loop, is registered for a given portal key.
C16_OnePortalPerKey ==
    \A p, q \in RegisteredPortals \ {0} : portals[p].Key = portals[q].Key => p = q

\* C16, the part that holds: the Portal registered under a key has this key, and
\* so has the Portal registered under a room ID, whose key the key index does
\* not lack
C16_IndexesAgreeOnKey ==
    /\ \A key \in PortalKeys :
          portalsByUID[key] # 0 => portals[portalsByUID[key]].Key = key
    /\ \A mxid \in RoomIDs :
          portalsByMXID[mxid] # 0 => portals[portalsByMXID[mxid]].MXID # 0

C17_RemoteRecordsUnique ==
    \A r1, r2 \in rows : (r1.key = r2.key /\ r1.key[1] = "") => r1 = r2

\* C18, as stated: while a user is logged in with remote UID uid, the UID
\* reverse index maps uid to that user and holds no entry for that user under
\* any other UID; after logout the index holds no entry for that user.
C18_IndexOfLoggedInUsers ==
    /\ [](\A u \in BridgeUsers :
            (IsLoggedIn(u) /\ userUID[u] # EmptyUID) =>
                /\ usersByUsername[userUID[u]] = u
                /\ \A uid \in Accounts \ {userUID[u]} : usersByUsername[uid] # u)
    /\ [][\A u \in BridgeUsers :
            fnLogout(u) => \A uid \in Accounts : usersByUsername'[uid] # u]_vars

\* C19, as stated: at any time at most one Puppet object is registered for a
\* given remote user UID (every Puppet object is made by a lookup, which
\* registers it), and lookups by UID and by custom hub user ID return that
\* same object.
C19_OnePuppetPerUID ==
    /\ \A i, j \in DOMAIN puppetObjs :
          puppetObjs[i].UID = puppetObjs[j].UID => i = j
    /\ \A m \in MXIDs :
          puppetsByCustomMXID[m] # 0 =>
              puppets[puppetObjs[puppetsByCustomMXID[m]].UID] = puppetsByCustomMXID[m]

\* the puppet i has no custom hub user, token or session after the step
ClearedAfter(i) ==
    /\ puppetObjs'[i].CustomMXID = 0
    /\ puppetObjs'[i].AccessToken = FALSE
    /\ puppetObjs'[i].customIntent = "none"

\* StartCustomMXID(true) goes on with the session when Whoami failed with an
\* error other than an unknown token, or with an unknown token and tryRelogin
\* got a new token
Tolerated(reloginOnFail, whoami) ==
    reloginOnFail /\ whoami \in {"othererror", "unknowntoken_relogin"}

ValidatedAfter(i, whoami) ==
    /\ puppetObjs'[i].CustomMXID # 0 => puppetObjs'[i].customIntent = "validated"
    /\ whoami # "ok" => ClearedAfter(i)

InstalledAfter(i, reloginOnFail, whoami) ==
    /\ puppetObjs'[i].CustomMXID # 0 =>
          IF Tolerated(reloginOnFail, whoami)
          THEN puppetObjs'[i].customIntent \in {"unvalidated", "relogin"}
          ELSE puppetObjs'[i].customIntent = "validated"
    /\ (whoami # "ok" /\ ~Tolerated(reloginOnFail, whoami)) => ClearedAfter(i)

InQueue(q, n) == \E i \in 1..Len(q) : q[i] = n

InMatrixQueue(n) == \E i \in 1..Len(matrixMessages) : matrixMessages[i].n = n

Unregistered(p) ==
    /\ \A key \in PortalKeys : portalsByUID[key] # p
    /\ \A mxid \in RoomIDs : portalsByMXID[mxid] # p

\* C22: deleting a portal removes it from the map by key and from the map by
\* room ID, and deleting it a second time leaves the maps and the table
\* exactly as after the first deletion
C22_DeleteRemovesAndRepeats ==
    [][\A p \in 1..MaxPortals :
         DeletePortal(p) =>
             /\ Unregistered(p)'
             /\ Delete(Registry', portals[p]) = Registry']_vars

\* C22, second half: a second deletion of the same Portal changes nothing
C22_SecondDeleteChangesNothing ==
    [][\A p \in 1..MaxPortals :
         DeletePortal(p) => Delete(Registry', portals[p]) = Registry']_vars

\* C22, first half without a replaced room ID: the entry of the key and the
\* entry of the room ID the Portal has now are gone
C22_CurrentEntriesRemoved ==
    [][\A p \in 1..MaxPortals :
         DeletePortal(p) =>
             /\ portalsByUID'[portals[p].Key] = 0
             /\ portals[p].MXID # 0 => portalsByMXID'[portals[p].MXID] = 0
             /\ dbPortals'[portals[p].Key] = NoRow]_vars

\* a Portal that was deleted is still found under a room ID it had before
C22_StaleRoomID ==
    \E p \in 1..Len(portals) :
        /\ portalsByUID[portals[p].Key] = 0
        /\ dbPortals[portals[p].Key] = NoRow
        /\ \E mxid \in RoomIDs : portalsByMXID[mxid] = p /\ portals[p].MXID # mxid

(***************************************************************************)
(* Properties of the remote-origin events of a portal with a room.         *)
(***************************************************************************)
\* the hub messages that were sent for events of this type
SentFor(type) == {m \in hub : m.origin = type}

\* C24: a remote notice event updates the room topic and sends no message
\* event into the hub room
C24_NoticeIsNoMessage ==
    [][\A e \in Events, intent \in Intents, ok \in BOOLEAN :
         (e.type = "notice" /\ handleWechatEvent(e, intent, ok)) =>
             /\ hub' = hub
             /\ (GetByMsgID(StoreOf(rows), PlainID(e.id)) = NoMsg /\ intent = "ok")
                    => topic' = e.id]_vars

\* C24, first half: a notice that is not a duplicate and has an intent is
\* given to UpdateTopic
C24_NoticeUpdatesTopic ==
    [][\A e \in Events, intent \in Intents, ok \in BOOLEAN :
         (/\ e.type = "notice"
          /\ handleWechatEvent(e, intent, ok)
          /\ GetByMsgID(StoreOf(rows), PlainID(e.id)) = NoMsg
          /\ intent = "ok") => topic' = e.id]_vars

\* a notice has become a text message of the room
C24_NoticeSentAsMessage ==
    \E m \in SentFor("notice") : m.msgtype = "text" /\ topic = m.key[2]

(***************************************************************************)
(* Properties of the echo of a hub-origin message.  The remote network     *)
(* gives the message that was sent for the hub event stamped ts an ID of   *)
(* its own, here the number ts, and reports it as an event of the owner.   *)
(***************************************************************************)
EchoOf(ts) == [id |-> ts, type |-> "text"]

\* HandleMatrixMessage has sent the hub event stamped ts and recorded it
SentToRemote(ts) == \E row \in rows : row.key = HubMsgID(ts) /\ row.type = "normal"

\* C23: after a hub-origin message has been sent to the remote network, its
\* echo arriving on the same portal is recognised as a duplicate and
\* produces no hub message
C23_EchoIsDuplicate ==
    [][\A ts \in Timestamps, intent \in Intents, ok \in BOOLEAN :
         (SentToRemote(ts) /\ handleWechatEvent(EchoOf(ts), intent, ok)) =>
             hub' = hub /\ rows' = rows]_vars

\* C23 for a private chat whose owner has no double puppeting: the echo is
\* dropped for its sender, not as a duplicate
C23_EchoDroppedWithoutDoublePuppet ==
    [][\A ts \in Timestamps, ok \in BOOLEAN :
         (SentToRemote(ts) /\ handleWechatEvent(EchoOf(ts), "own", ok)) =>
             hub' = hub /\ rows' = rows]_vars

\* the echo of a message that was sent to the remote network is in the room
C23_EchoBridged ==
    \E ts \in Timestamps :
        /\ SentToRemote(ts)
        /\ \E m \in hub : m.key = PlainID(ts) /\ m.origin = "text"
        /\ \E row \in rows : row.key = PlainID(ts)

(***************************************************************************)
(* Properties of the senders that are not bridged, and of the hub events   *)
(* that do not reach the remote network.                                   *)
(***************************************************************************)
\* the step gives nothing to the agent and stores no record
NothingBridgedOut == outbound'.requests = outbound.requests /\ rows' = rows

\* the step has answered the hub event with a failure notice, which is in
\* the room when the hub has taken it
Answered(ts, text, ok) ==
    /\ <<ts, text>> \in outbound'.notices
    /\ ok => FailureNotice(ts, text, nextEventID + 1) \in hub'

\* C25: in a private-chat portal, a remote event whose sender is the portal's
\* owner is not bridged when the sender's puppet has no double-puppet
\* session: no hub message is sent and no message record is stored
C25_OwnerEventNotBridged ==
    [][\A e \in Events, ok \in BOOLEAN, portalUID \in {"A", "C"} :
         handleWechatEvent(e, MessageIntent(IntentFor("A", 0, portalUID)[1] = "custom",
                                            TRUE, TRUE), ok)
             => hub' = hub /\ rows' = rows]_vars

\* C25 happens: after events were bridged into the room, the last event
\* came from the owner without double puppeting
C25_Witness ==
    /\ outbound.last = "own"
    /\ rows # {}
    /\ hub # {}

\* C26: a hub-origin message is not sent to the remote network, and no message
\* record is stored, when the sending user has no active remote session or,
\* in a private-chat portal, is not the portal's designated owner
C26_RejectedSenderNotBridged ==
    [][\A ts \in Timestamps, loggedIn \in BOOLEAN, private \in BOOLEAN,
          isReceiver \in BOOLEAN, content \in ContentTypes :
         (/\ ~loggedIn \/ (private /\ ~isReceiver)
          /\ HandleMatrixMessage(ts, loggedIn, private, isReceiver, content, "ok", TRUE))
             => NothingBridgedOut]_vars

\* C26 happens: of two hub messages one was sent to the remote network and
\* recorded; the other, nowhere requested, recorded or answered, came from a
\* sender that canBridgeFrom rejects
C26_Witness ==
    /\ nHandled = 2
    /\ nextEventID = 3
    /\ Cardinality(outbound.requests) = 1
    /\ Cardinality(rows) = 1
    /\ outbound.notices = {}
    /\ \E ts \in Timestamps \ outbound.requests : ~SentToRemote(ts)

\* C27, as stated: a hub-origin message with an unsupported content type
\* results in a failure notice sent into the same room, no event sent to the
\* remote network and no message record
C27_UnsupportedAnswered ==
    [][\A ts \in Timestamps, loggedIn \in BOOLEAN, private \in BOOLEAN,
          isReceiver \in BOOLEAN, ok \in BOOLEAN :
         HandleMatrixMessage(ts, loggedIn, private, isReceiver, "other", "ok", ok)
             => Answered(ts, "other", ok) /\ NothingBridgedOut]_vars

\* C27, amended: a hub-origin message with an unsupported content type from
\* a sender that canBridgeFrom lets through results in a failure notice sent
\* into the same room; from any sender, no event is sent to the remote network
\* and no message record is stored
C27_UnsupportedFromBridgedSenderAnswered ==
    [][\A ts \in Timestamps, loggedIn \in BOOLEAN, private \in BOOLEAN,
          isReceiver \in BOOLEAN, ok \in BOOLEAN :
         HandleMatrixMessage(ts, loggedIn, private, isReceiver, "other", "ok", ok)
             => /\ NothingBridgedOut
                /\ (loggedIn /\ (private => isReceiver)) => Answered(ts, "other", ok)]_vars

\* C27 happens: a message with a msgtype of the default branch was answered,
\* the notice is in the room, nothing was given to the agent or recorded
C27_Witness ==
    \E ts \in Timestamps \ outbound.requests :
        /\ <<ts, "other">> \in outbound.notices
        /\ \E m \in hub : m.key = HubMsgID(ts) /\ m.origin = "other"
        /\ ~SentToRemote(ts)

\* C28: when sending a hub-origin message to the remote network fails, by
\* agent error, missing connection or timeout, a failure notice replying to
\* the original event is sent into the room and no message record is stored
\* for it
C28_SendFailureAnswered ==
    [][\A ts \in Timestamps, private \in BOOLEAN, isReceiver \in BOOLEAN,
          content \in {c \in ContentTypes : Converts(c)},
          send \in SendResults \ {"ok"}, ok \in BOOLEAN :
         HandleMatrixMessage(ts, TRUE, private, isReceiver, content, send, ok)
             => \/ private /\ ~isReceiver
                \/ Answered(ts, send, ok) /\ rows' = rows /\ ts \in outbound'.requests]_vars

\* C28 happens: a message was given to the agent, the send timed out,
\* the notice is in the room and there is no record
C28_Witness ==
    \E ts \in outbound.requests :
        /\ <<ts, "timeout">> \in outbound.notices
        /\ \E m \in hub : m.key = HubMsgID(ts) /\ m.origin = "timeout"
        /\ ~SentToRemote(ts)

(***************************************************************************)
(* Properties of the "set" flags.                                          *)
(***************************************************************************)
\* the flag is set only while the room has the portal's value of the field
SetMeansPushed(m) ==
    /\ m.NameSet => m.hasRoom /\ m.room.name = m.Name
    /\ m.TopicSet => m.hasRoom /\ m.room.topic = m.Topic
    /\ m.AvatarSet => m.hasRoom /\ m.room.avatar = m.Avatar

\* C29: a portal's name, topic or avatar "set" flag is true only if the hub
\* call that pushed the portal's current value of that field into the room
\* succeeded; any change of the value sets the flag false before the push
C29_SetOnlyAfterPush == SetMeansPushed(meta)

\* C29 for UpdateName, UpdateTopic and UpdateAvatar: they keep what
\* CreateMatrixRoom does not establish
C29_UpdatesKeepFlags ==
    [][(meta.hasRoom /\ SetMeansPushed(meta)) => SetMeansPushed(meta')]_vars

\* the flag of a field whose last push failed
FlagOf(m, field) ==
    IF field = "name" THEN m.NameSet
    ELSE IF field = "topic" THEN m.TopicSet
    ELSE m.AvatarSet

\* the step is a sync that carries the value the portal has
SyncOfSame(field) ==
    IF field = "name"
    THEN \E pushOk \in BOOLEAN : UpdateName(meta.Name, pushOk)
    ELSE IF field = "topic"
    THEN \E pushOk \in BOOLEAN : UpdateTopic(meta.Topic, pushOk)
    ELSE \E reuploadOk \in BOOLEAN, pushOk \in BOOLEAN :
            UpdateAvatar(meta.Avatar, reuploadOk, pushOk)

\* C30: after a push of a portal's name, topic or avatar to the hub fails, the
\* "set" flag is false and a later sync that carries the same value attempts
\* the push again
C30_FailedPushRetried ==
    [][/\ \A field \in meta'.failed : ~FlagOf(meta', field)
       /\ \A field \in meta.failed :
             SyncOfSame(field) => meta'.attempted = field]_vars

\* C30 for the name and the topic
C30_NameAndTopicRetried ==
    [][/\ \A field \in meta'.failed : ~FlagOf(meta', field)
       /\ \A field \in meta.failed \ {"avatar"} :
             SyncOfSame(field) => meta'.attempted = field]_vars

(***************************************************************************)
(* Properties of the select of handleMessageLoop.                          *)
(***************************************************************************)
\* C31: the consumer loop gives neither queue priority: under fair scheduling
\* every item enqueued on the remote-origin queue or the hub-origin queue is
\* eventually processed, even while the other queue is never empty
C31_BothQueuesServed ==
    /\ \A n \in 1..(PortalMessageBuffer + 1) :
          InQueue(messages, n) ~> ~InQueue(messages, n)
    /\ \A n \in 1..(PortalMessageBuffer + 1) :
          InMatrixQueue(n) ~> ~InMatrixQueue(n)

\* C31 happens: both channels are full
C31_Witness ==
    /\ Len(messages) = PortalMessageBuffer
    /\ Len(matrixMessages) = PortalMessageBuffer

(***************************************************************************)
(* Properties of the locks while the bridge stops.                         *)
(***************************************************************************)
\* C32: the registry locks and the request-map lock are held only while the
\* guarded map is read or written, and never while the holding task waits on
\* a remote request, a network write or close, or a server shutdown
C32_NoLockHeldWhileWaiting ==
    \A t \in Tasks : at[t].step \in WaitingSteps => HeldBy(t) = {}

\* the part of C32 that holds: the request-map lock is never held by a task
\* that waits, and a task that is not stopping the bridge holds no lock
\* while it waits
C32_OnlyStopWaitsWithLock ==
    \A t \in Tasks :
        at[t].step \in WaitingSteps =>
            /\ "requestsLock" \notin HeldBy(t)
            /\ at[t].op # "Stop" => HeldBy(t) = {}

\* one lock is one writer or some readers, of tasks that are in the steps
\* between its Lock and its Unlock
C32_LocksWellFormed ==
    \A l \in LockNames : held[l].w = 0 \/ held[l].r = {}

(***************************************************************************)
(* Properties of the reader's send and the caller's close.                 *)
(***************************************************************************)
\* C33: the connection reader never sends a response on a waiter channel
\* that the requesting task's cleanup has already closed, under any
\* interleaving of a response frame's arrival with the request's timeout or
\* return
C33_NoSendOnClosedChannel ==
    [][\A k \in ConnKeys : Send(k) => ~chans[rchan[k]].closed]_vars

(***************************************************************************)
(* Properties of the client registry's lock.                               *)
(***************************************************************************)
\* C34: after the connection reader drops an event addressed to a logical
\* client that is not registered, the client-registry lock is free, so a
\* later CreateClient or RemoveClient call completes: whenever no task is
\* inside the lookup or inside CreateClient or RemoveClient, the lock has no
\* holder
C34_LockFreeAfterDrop ==
    (\A t \in Tasks : at[t] = Idle) => CanLock("clientsLock")

\* the part of C34 that holds: the lookup of an event for a registered client
\* releases its read lock
C34_DispatchReleases ==
    [][\A t \in Tasks :
          (EventLookup(t) /\ at[t].todo \in clients)
              => held'["clientsLock"].r = held["clientsLock"].r \ {t}]_vars

(***************************************************************************)
(* Properties of the index of the portals by room ID.                      *)
(***************************************************************************)
\* the first half of C35: an entry of the index by room ID leads to a Portal
\* whose room ID is the entry's
C35_EntriesAreCurrent ==
    \A mxid \in RoomIDs :
        portalsByMXID[mxid] # 0 => portals[portalsByMXID[mxid]].MXID = mxid

\* the second half of C35: a registered Portal that has a room is registered
\* under the room ID it has
C35_RoomsAreRegistered ==
    \A key \in PortalKeys :
        (portalsByUID[key] # 0 /\ portals[portalsByUID[key]].MXID # 0)
            => portalsByMXID[portals[portalsByUID[key]].MXID] = portalsByUID[key]

\* C35: whenever the by-room-ID portal registry maps room r to portal p, p's
\* current room ID is r, and every registered portal that has a room is
\* registered under its current room ID; this holds across room creation,
\* start-private-chat, invite-created portals and deletion
C35_RoomIndexMatchesPortals ==
    C35_EntriesAreCurrent /\ C35_RoomsAreRegistered

(***************************************************************************)
(* Properties of the User objects.                                         *)
(***************************************************************************)
\* C36: at any time at most one User object, with one background resync
\* loop, exists for a given hub user ID, and lookups by hub user ID and by
\* remote UID return that same object
C36_OneUserObjectPerMXID ==
    /\ \A i, j \in 1..Len(userRegistry.objs) :
          userRegistry.objs[i].MXID = userRegistry.objs[j].MXID => i = j
    /\ \A uin \in Accounts :
          userRegistry.usersByUsername[uin] # 0 =>
              userRegistry.usersByMXID[
                  userRegistry.objs[userRegistry.usersByUsername[uin]].MXID]
                      = userRegistry.usersByUsername[uin]

\* the part of C36 that holds: the object that a lookup by hub user ID
\* returns has this ID, and the lookups by hub user ID alone make one object
\* per ID
C36_LookupByMXIDMakesOne ==
    /\ [](\A mxid \in BridgeUsers :
            userRegistry.usersByMXID[mxid] # 0 =>
                userRegistry.objs[userRegistry.usersByMXID[mxid]].MXID = mxid)
    /\ [][\A mxid \in BridgeUsers, onlyIfExists \in BOOLEAN :
            GetUserByMXID(mxid, onlyIfExists) =>
                \A i \in 1..Len(userRegistry.objs) :
                    userRegistry.objs[i].MXID # mxid]_vars

(***************************************************************************)
(* Properties of a revocation of a message that has no record.             *)
(***************************************************************************)
\* C37: a revocation event whose message ID has no stored record sends no
\* message into the hub room and stores no record under that ID, so a later
\* non-revocation event with the same ID is not dropped as a duplicate: no
\* message of the room and no record under a message ID comes from a
\* revocation event
C37_UnknownRevokeLeavesNoTrace ==
    \A m \in hub :
        m.origin = "revoke" =>
            /\ m.key[1] = "FAKE::"
            /\ store[PlainID(m.key[2])] # NoMsg
            /\ store[PlainID(m.key[2])].mxid # m.ev

(***************************************************************************)
(* Properties of an inbound item of a portal without a room.               *)
(***************************************************************************)
\* C38: if room creation fails while handling an inbound remote message, that
\* message is not converted, sent or recorded, the portal stays without a
\* room, and the next inbound message for the portal attempts room creation
\* again (and with a room from the hub the portal has it)
C38_FailedCreationDropsItem ==
    [][MXID = 0 =>
         \A e \in Events, intent \in Intents, ok \in BOOLEAN, redact \in RedactResults :
             /\ handleWechatMessageLoopItem(e, FALSE, intent, ok, redact, "ok")
                    => /\ MXID' = 0
                       /\ roomsCreated' = roomsCreated
                       /\ UNCHANGED <<store, hub, nextEventID, recentlyHandled,
                                      recentlyHandledIndex, topic, redactRequests>>
             /\ handleWechatMessageLoopItem(e, TRUE, intent, ok, redact, "ok")
                    => /\ MXID' = roomsCreated + 1
                       /\ roomsCreated' = roomsCreated + 1]_vars

\* C38 happens: items were handled and the portal has no room
C38_Witness ==
    /\ MXID = 0
    /\ nHandled > 1
    /\ hub = {}

(***************************************************************************)
(* Properties of the ring of the handled message IDs.                      *)
(***************************************************************************)
\* C39: after a message ID is marked handled, isRecentlyHandled returns true
\* for that ID until 100 further IDs have been marked handled, and the ring
\* index always stays within 0..99
C39_RingRemembersHandled ==
    /\ \A i \in DOMAIN recentlyHandled :
          IsRecentlyHandled(PortalState, recentlyHandled[i])
    /\ recentlyHandledIndex \in 0..(recentlyHandledLength - 1)

\* the second half of C39: the ring index stays within 0..99, and the ring
\* holds the last 100 IDs at most
C39_IndexInRange ==
    /\ recentlyHandledIndex \in 0..(recentlyHandledLength - 1)
    /\ recentlyHandledIndex = nHandled % recentlyHandledLength
    /\ DOMAIN recentlyHandled \subseteq 0..(recentlyHandledLength - 1)

\* the index has gone round the ring
C39_Wrapped ==
    nHandled > recentlyHandledLength /\ recentlyHandledIndex = 1

(***************************************************************************)
(* Properties of the order of the locks.                                   *)
(***************************************************************************)
\* the task that holds the lock task u waits for (0: u does not wait, or the
\* lock is free)
WaitsFor(u) ==
    IF u = 0 \/ LockWanted(at[u].step) = "none" THEN 0
    ELSE held[LockWanted(at[u].step)].w

RECURSIVE WaitChain(_, _)
\* the task at the end of k steps along WaitsFor from u
WaitChain(u, k) ==
    IF k = 0 THEN u ELSE WaitsFor(WaitChain(u, k - 1))

\* C40: room creation, puppet sync and puppet-triggered portal metadata
\* updates take the portal's room-create lock, the puppet's sync lock and the
\* portal registry lock in an acyclic order, so no interleaving of these
\* operations deadlocks: no task waits for a lock whose holder waits, directly
\* or through other tasks, for a lock of this task, and the sync lock and the
\* registry lock are never held by a task that waits for the room-create lock
C40_NoDeadlock ==
    /\ \A u \in Tasks : \A k \in 1..NumTasks : WaitChain(u, k) # u
    /\ \A u \in Tasks :
          LockWanted(at[u].step) = "roomCreateLock" => HeldBy(u) = {}
    /\ \A u \in Tasks :
          "portalsLock" \in HeldBy(u) => LockWanted(at[u].step) = "none"

\* C40 happens: a task is in Sync inside CreateMatrixRoom, with both locks,
\* and the goroutine of updatePortalMeta waits for the room-create lock
C40_Witness ==
    \E t, u \in Tasks :
        /\ {"roomCreateLock", "syncLock"} \subseteq HeldBy(t)
        /\ at[u].step = "m.roomCreateLock"

(***************************************************************************)
(* Properties of room creation.                                            *)
(***************************************************************************)

\* C2, as stated: when several triggers call room creation concurrently for a
\* portal without a room, exactly one room is created and every trigger ends up
\* with the same room ID.
C2_OneRoomForAllTriggers ==
    /\ roomsCreated <= 1
    /\ \A t, u \in Triggers :
           (tpc[t] = "done" /\ tpc[u] = "done") => observed[t] = observed[u]

(***************************************************************************)
(* Properties of the order of handling.                                    *)
(***************************************************************************)

\* C6: the hub-origin messages of a portal are sent to the remote network in the
\* order of their submission, whatever remote-origin events come in between.
C6_HubOrderPreserved ==
    \A i, j \in 1..Len(remoteLog) : i < j => remoteLog[i] < remoteLog[j]

\* C6 happens: m1, m2, m3 have been sent to the remote network and remote-origin
\* events have been handled as well
C6_Witness ==
    /\ Len(remoteLog) >= 3
    /\ Len(processedLog) >= 2

\* C7, as stated: remote-origin events that the connection reader read as e1
\* then e2 are handled by the portal's loop as e1 then e2.
C7_RemoteOrderPreserved ==
    \A i, j \in 1..Len(processedLog) : i < j => processedLog[i] < processedLog[j]

====
